---- MODULE Spec2Model ----
(***************************************************************************)
(* State-machine model of the youtube-shorts-pipeline job driver:          *)
(*   - pipeline/state.py     PipelineState, the stage ledger embedded in   *)
(*                           the draft JSON document;                      *)
(*   - pipeline/__main__.py  cmd_draft, cmd_produce, cmd_upload, the       *)
(*                           orchestrator that gates every stage on the    *)
(*                           ledger and saves the draft.                   *)
(* Python dicts are TLA+ functions with a finite string domain, lists are  *)
(* sequences, a str is a TLA+ string, a pathlib.Path is the tuple          *)
(* <<"Path", s>> and None is the tuple <<"None">>.                         *)
(***************************************************************************)
EXTENDS Integers, Sequences, FiniteSets, TLC

(***************************************************************************)
(* Bounds of the model.                                                    *)
(***************************************************************************)
\* number of produce / upload invocations in one behaviour
MaxRuns == 2
\* number of ledger operations in one behaviour of SpecLedger
MaxOps == 4

(***************************************************************************)
(* Python values.                                                          *)
(***************************************************************************)
None == <<"None">>

EmptyDict == [k \in {} |-> ""]

\* dict.get(k, default)
Get(d, k, default) == IF k \in DOMAIN d THEN d[k] ELSE default

\* d[k] = v
Put(d, k, v) == [x \in DOMAIN d \cup {k} |-> IF x = k THEN v ELSE d[x]]

\* pathlib.Path(s) and str(Path)
Path(s) == <<"Path", s>>

StrOfPath(p) == p[2]

\* bool(dict): an empty dict is falsy
Truthy(d) == DOMAIN d # {}

\* datetime.now(timezone.utc).isoformat(): the reading of a clock, as text
IsoFormat(t) == <<"iso", t>>

\* json.dumps / json.loads: the draft holds only str values, lists of str and
\* dicts keyed by str, which a JSON text gives back as they were written
json_dumps(d) == <<"json", d>>

json_loads(text) == text[2]

(***************************************************************************)
(* pipeline/state.py                                                       *)
(***************************************************************************)
STAGES ==
    << "research", "draft", "broll", "voiceover", "whisper",
       "captions", "music", "assemble", "thumbnail", "upload" >>

\* PipelineState.__init__: the draft gets an empty ledger when it has none
PipelineState(d) ==
    IF "_pipeline_state" \notin DOMAIN d THEN Put(d, "_pipeline_state", EmptyDict) ELSE d

\* PipelineState.state
StateOf(d) == d["_pipeline_state"]

\* entry.get("status") == "done": a missing key gives None, which equals no str
is_done(d, stage) ==
    LET entry == Get(StateOf(d), stage, EmptyDict)
    IN  "status" \in DOMAIN entry /\ entry["status"] = "done"

is_failed(d, stage) ==
    LET entry == Get(StateOf(d), stage, EmptyDict)
    IN  "status" \in DOMAIN entry /\ entry["status"] = "failed"

complete_stage_merging(d, stage, artifacts, now) ==
    LET old   == Get(StateOf(d), stage, EmptyDict)
        oldA  == Get(old, "artifacts", EmptyDict)
        newA  == [k \in DOMAIN oldA \cup DOMAIN artifacts |->
                     IF k \in DOMAIN artifacts THEN artifacts[k] ELSE oldA[k]]
        base  == [x \in (DOMAIN old \ {"artifacts"}) \cup {"status", "timestamp"} |->
                     IF x = "status" THEN "done"
                     ELSE IF x = "timestamp" THEN IsoFormat(now) ELSE old[x]]
        entry == IF Truthy(newA) THEN Put(base, "artifacts", newA) ELSE base
    IN  Put(d, "_pipeline_state", Put(StateOf(d), stage, entry))

\* `if artifacts:` treats the default None and {} alike, and artifacts is used
\* nowhere else: a call without artifacts passes EmptyDict here
complete_stage(d, stage, artifacts, now) ==
    LET base  == [status |-> "done", timestamp |-> IsoFormat(now)]
        entry == IF Truthy(artifacts)
                 THEN Put(base, "artifacts", artifacts)
                 ELSE base
    IN  Put(d, "_pipeline_state", Put(StateOf(d), stage, entry))

fail_stage_keeping_artifacts(d, stage, error, now) ==
    LET old  == Get(StateOf(d), stage, EmptyDict)
        base == [status |-> "failed", timestamp |-> IsoFormat(now), error |-> error]
        entry == IF "artifacts" \in DOMAIN old
                 THEN Put(base, "artifacts", old["artifacts"])
                 ELSE base
    IN  Put(d, "_pipeline_state", Put(StateOf(d), stage, entry))

fail_stage(d, stage, error, now) ==
    Put(d, "_pipeline_state",
        Put(StateOf(d), stage,
            [status |-> "failed", timestamp |-> IsoFormat(now), error |-> error]))

get_artifact_default(d, stage, key, default) == default

get_artifact_any_stage(d, stage, key, default) ==
    LET st   == StateOf(d)
        have == {s \in DOMAIN st : key \in DOMAIN Get(st[s], "artifacts", EmptyDict)}
    IN  IF have = {} THEN default
        ELSE LET s == CHOOSE x \in have : TRUE IN st[s]["artifacts"][key]

get_artifact(d, stage, key, default) ==
    LET entry     == Get(StateOf(d), stage, EmptyDict)
        artifacts == Get(entry, "artifacts", EmptyDict)
    IN  Get(artifacts, key, default)

reset_keeping(d) == d

reset(d) == Put(d, "_pipeline_state", EmptyDict)

save_without_ledger(d) ==
    json_dumps([k \in DOMAIN d \ {"_pipeline_state"} |-> d[k]])

\* PipelineState.save: path.write_text(json.dumps(self.draft)), the whole document
save(d) == json_dumps(d)

(***************************************************************************)
(* State.  The program: the draft document on disk, and the one process    *)
(* that may be running a command on it.  History variables (what the run   *)
(* loaded, which collaborators it called, how the previous run ended) are  *)
(* read by the properties only.                                            *)
(***************************************************************************)
VARIABLES
    disk,       \* the draft JSON document at draft_path
    draft,      \* the running command's draft dict (with the ledger in it)
    pc,         \* the running command's position: a stage, a tail, or how it ended
    incall,     \* TRUE while the stage's collaborator is executing
    cmd,        \* "produce" | "upload" | "none"
    lang,       \* args.lang
    force,      \* args.force
    loc,        \* the command's local variables, a dict
    clock,      \* the wall clock read by datetime.now
    runs,       \* commands started so far
    loaded,     \* history: the draft as PipelineState(draft) found it
    calls,      \* history: the collaborator calls of this run, with their inputs
    decided,    \* history: the stages whose `if force or not is_done` was evaluated
    returned,   \* history: the stages whose collaborator returned in this run
    raisedIn,   \* history: the stages whose collaborator raised in this run
    stopped,    \* history: the stage at which this run raised or died
    prev,       \* history: how the previous run went
    ref,        \* history: the draft of the same run made without force on a
                \*          ledger whose entry is cleared before each stage
    refCalls,   \* history: the collaborator calls of that run
    ops,        \* SpecLedger: ledger operations applied so far
    hist,       \* SpecLedger history: per stage, the latest operation that set
                \*   its entry, that operation's argument, and the entry before it
    rt,         \* SpecRetry: one call of a with_retry wrapper
    eng,        \* SpecEngine: one call of TopicEngine.discover
    cap,        \* SpecCaptions: one call of the caption generators
    mus,        \* SpecMusic: one call of the speech-region merge and the duck filter
    dft,        \* SpecDraft: one run of the draft command
    stg,        \* SpecFallback: the broll and voiceover stages of one produce run
    duo         \* SpecDuo: two produce commands on the same job record

progVars == <<disk, draft, pc, incall, cmd, lang, force, loc, clock, runs>>

histVars == <<loaded, calls, decided, returned, raisedIn, stopped, prev, ref, refCalls>>

ledgerVars == <<ops, hist>>

compVars == <<rt, eng, cap, mus, dft, stg, duo>>

vars == <<progVars, histVars, ledgerVars, compVars>>

Langs == {"en", "hi"}

ProduceStages == <<"broll", "voiceover", "captions", "music", "assemble">>

UploadStages == <<"thumbnail", "upload">>

Range(seq) == {seq[i] : i \in 1..Len(seq)}

Terminal == {"idle", "done", "raised", "crashed", "exited"}

(***************************************************************************)
(* The collaborators, by what they hand back.  File names follow the code: *)
(* work_dir is MEDIA_DIR/work_<job>_<lang>, so a path names its language.  *)
(***************************************************************************)
\* broll.generate_broll: one frame per prompt, work_dir/broll_<i>.png
BrollResults(l) ==
    IF l = "hi"
    THEN { << Path("work_hi/broll_0.png"), Path("work_hi/broll_1.png") >> }
    ELSE { << Path("work_en/broll_0.png"), Path("work_en/broll_1.png") >> }

\* voiceover.generate_voiceover: the ElevenLabs file, or the `say` fallback's
VoiceoverResults(l) ==
    IF l = "hi"
    THEN { Path("work_hi/voiceover_hi.mp3"), Path("work_hi/voiceover_say.mp3") }
    ELSE { Path("work_en/voiceover_en.mp3"), Path("work_en/voiceover_say.mp3") }

\* captions.generate_captions: no words and no whisper CLI ({"words": []}), or
\* both caption files
CaptionsResults(l) ==
    IF l = "hi"
    THEN { EmptyDict,
           [srt_path |-> "work_hi/captions_hi.srt", ass_path |-> "work_hi/captions_hi.ass"] }
    ELSE { EmptyDict,
           [srt_path |-> "work_en/captions_en.srt", ass_path |-> "work_en/captions_en.ass"] }

\* music.select_and_prepare_music: {} without tracks, else a track and its filter
MusicResults ==
    { EmptyDict,
      [track_path |-> "music/a.mp3", duck_filter |-> "volume=0.25"] }

\* assemble.assemble_video: MEDIA_DIR/pipeline_<job>_<lang>.mp4
AssembleResults(l) ==
    IF l = "hi" THEN { Path("media/pipeline_hi.mp4") } ELSE { Path("media/pipeline_en.mp4") }

\* thumbnail.generate_thumbnail: MEDIA_DIR/thumb_<job>.png
ThumbnailResults == { Path("media/thumb.png") }

\* upload.upload_to_youtube: the URL of the video just created
UploadResults == { "https://youtu.be/1", "https://youtu.be/2" }

\* MEDIA_DIR / f"pipeline_{job_id}_{lang}.srt"
FinalSrt(l) == IF l = "hi" THEN "media/pipeline_hi.srt" ELSE "media/pipeline_en.srt"

\* MEDIA_DIR / f"work_{job_id}_{lang}"
WorkDir(l) == IF l = "hi" THEN "media/work_hi" ELSE "media/work_en"

VideoKey(l) == IF l = "hi" THEN "video_hi" ELSE "video_en"

SrtKey(l) == IF l = "hi" THEN "srt_hi" ELSE "srt_en"

UrlKey(l) == IF l = "hi" THEN "youtube_url_hi" ELSE "youtube_url_en"

\* [str(f) for f in frames] and [Path(f) for f in ...]
StrList(paths) == [i \in 1..Len(paths) |-> StrOfPath(paths[i])]

PathList(strs) == [i \in 1..Len(strs) |-> Path(strs[i])]

(***************************************************************************)
(* pipeline/__main__.py: cmd_draft.  The document a draft run leaves on    *)
(* disk: research and draft complete, no video yet.                        *)
(***************************************************************************)
cmd_draft ==
    LET d0 == PipelineState([job_id |-> "job"])
        d1 == complete_stage(d0, "research", EmptyDict, 0)
        d2 == complete_stage(d1, "draft", EmptyDict, 1)
    IN  d2

(***************************************************************************)
(* pipeline/__main__.py: what every stage of cmd_produce and cmd_upload    *)
(* does around its collaborator.                                           *)
(***************************************************************************)
\* `if force or not state.is_done(stage)`
ShouldRun_when_language_is_new(stage) ==
    force \/ ~is_done(draft, stage) \/ VideoKey(lang) \notin DOMAIN draft

ShouldRun_ignoring_force(stage) == ~is_done(draft, stage)

ShouldRun(stage) == force \/ ~is_done(draft, stage)

\* the ledger with one stage's entry removed: reset(), for that stage alone
ClearStage(d, stage) ==
    Put(d, "_pipeline_state",
        [s \in DOMAIN StateOf(d) \ {stage} |-> StateOf(d)[s]])

\* the reference run reaches a stage: under --force it clears the entry first,
\* then decides as a run without force does
RefAtStage(stage) ==
    LET cleared == IF force THEN ClearStage(ref, stage) ELSE ref
    IN  /\ ref' = cleared
        /\ refCalls' = IF ~is_done(cleared, stage) THEN Append(refCalls, stage) ELSE refCalls

\* the collaborator of `stage` is called with `args`
Invoke(stage, args) ==
    /\ incall' = TRUE
    /\ calls' = Append(calls, [stage |-> stage, args |-> args])
    /\ decided' = decided \cup {stage}
    /\ RefAtStage(stage)
    /\ UNCHANGED <<disk, draft, pc, cmd, lang, force, loc, clock, runs>>
    /\ UNCHANGED <<loaded, returned, raisedIn, stopped, prev>>

\* the else branch: the stage is skipped and `name` read back from the ledger
SkipTo(stage, next, name, value) ==
    /\ loc' = Put(loc, name, value)
    /\ pc' = next
    /\ decided' = decided \cup {stage}
    /\ RefAtStage(stage)
    /\ UNCHANGED <<disk, draft, incall, cmd, lang, force, clock, runs>>
    /\ UNCHANGED <<loaded, calls, returned, raisedIn, stopped, prev>>

\* the collaborator returned: state.complete_stage(stage, artifacts), and the
\* result is kept in the local `name`
CompleteTo(stage, next, artifacts, name, value) ==
    /\ draft' = complete_stage(draft, stage, artifacts, clock)
    /\ ref' = complete_stage(ref, stage, artifacts, clock)
    /\ clock' = clock + 1
    /\ loc' = Put(loc, name, value)
    /\ pc' = next
    /\ incall' = FALSE
    /\ returned' = returned \cup {stage}
    /\ UNCHANGED <<disk, cmd, lang, force, runs>>
    /\ UNCHANGED <<loaded, calls, decided, raisedIn, stopped, prev, refCalls>>

\* how a run that ends leaves its history to the next one
EndOfRun == [cmd |-> cmd, lang |-> lang, force |-> force, end |-> pc,
             at |-> stopped.at, incall |-> stopped.incall,
             returned |-> returned, called |-> {calls[i].stage : i \in 1..Len(calls)}]

NotStopped == [at |-> "none", incall |-> FALSE]

\* json.loads(draft_path.read_text()); PipelineState(draft)
Load(command, l, f, first) ==
    /\ pc \in Terminal
    /\ runs < MaxRuns
    /\ runs' = runs + 1
    /\ draft' = PipelineState(json_loads(disk))
    /\ cmd' = command
    /\ lang' = l
    /\ force' = f
    /\ loc' = EmptyDict
    /\ pc' = first
    /\ incall' = FALSE
    /\ loaded' = PipelineState(json_loads(disk))
    /\ ref' = PipelineState(json_loads(disk))
    /\ calls' = <<>>
    /\ refCalls' = <<>>
    /\ decided' = {}
    /\ returned' = {}
    /\ raisedIn' = {}
    /\ stopped' = NotStopped
    /\ prev' = EndOfRun
    /\ UNCHANGED <<disk, clock>>

(***************************************************************************)
(* cmd_produce                                                             *)
(***************************************************************************)
ProduceStart ==
    \E l \in Langs, f \in BOOLEAN : Load("produce", l, f, "broll")

Broll ==
    /\ pc = "broll" /\ ~incall
    /\ IF ShouldRun("broll")
       THEN Invoke("broll", [work_dir |-> WorkDir(lang)])
       ELSE SkipTo("broll", "voiceover", "frames",
                   PathList(get_artifact(draft, "broll", "frames", <<>>)))

BrollReturns ==
    /\ pc = "broll" /\ incall
    /\ \E frames \in BrollResults(lang) :
          CompleteTo("broll", "voiceover", [frames |-> StrList(frames)], "frames", frames)

Voiceover ==
    /\ pc = "voiceover" /\ ~incall
    /\ IF ShouldRun("voiceover")
       THEN Invoke("voiceover", [work_dir |-> WorkDir(lang), lang |-> lang])
       ELSE SkipTo("voiceover", "captions", "vo_path",
                   Path(get_artifact(draft, "voiceover", "path", None)))

VoiceoverReturns ==
    /\ pc = "voiceover" /\ incall
    /\ \E vo_path \in VoiceoverResults(lang) :
          CompleteTo("voiceover", "captions", [path |-> StrOfPath(vo_path)], "vo_path", vo_path)

Captions ==
    /\ pc = "captions" /\ ~incall
    /\ IF ShouldRun("captions")
       THEN Invoke("captions", [vo_path |-> loc["vo_path"], work_dir |-> WorkDir(lang), lang |-> lang])
       ELSE SkipTo("captions", "music", "captions_result",
                   [srt_path |-> get_artifact(draft, "captions", "srt_path", ""),
                    ass_path |-> get_artifact(draft, "captions", "ass_path", "")])

\* str(captions_result.get("srt_path", "")): the result's paths are already str
CaptionsReturns ==
    /\ pc = "captions" /\ incall
    /\ \E captions_result \in CaptionsResults(lang) :
          CompleteTo("captions", "music",
                     [srt_path |-> Get(captions_result, "srt_path", ""),
                      ass_path |-> Get(captions_result, "ass_path", "")],
                     "captions_result", captions_result)

Music ==
    /\ pc = "music" /\ ~incall
    /\ IF ShouldRun("music")
       THEN Invoke("music", [vo_path |-> loc["vo_path"], work_dir |-> WorkDir(lang)])
       ELSE SkipTo("music", "assemble", "music_result",
                   [track_path  |-> get_artifact(draft, "music", "track_path", ""),
                    duck_filter |-> get_artifact(draft, "music", "duck_filter", "")])

MusicReturns ==
    /\ pc = "music" /\ incall
    /\ \E music_result \in MusicResults :
          CompleteTo("music", "assemble",
                     [track_path  |-> Get(music_result, "track_path", ""),
                      duck_filter |-> Get(music_result, "duck_filter", "")],
                     "music_result", music_result)

Assemble ==
    /\ pc = "assemble" /\ ~incall
    /\ IF ShouldRun("assemble")
       THEN Invoke("assemble",
                   [frames      |-> loc["frames"],
                    voiceover   |-> loc["vo_path"],
                    out_dir     |-> WorkDir(lang),
                    lang        |-> lang,
                    ass_path    |-> Get(loc["captions_result"], "ass_path", None),
                    music_path  |-> Get(loc["music_result"], "track_path", None),
                    duck_filter |-> Get(loc["music_result"], "duck_filter", None)])
       ELSE SkipTo("assemble", "produce_save", "video_path",
                   Path(get_artifact(draft, "assemble", "video_path", None)))

AssembleReturns ==
    /\ pc = "assemble" /\ incall
    /\ \E video_path \in AssembleResults(lang) :
          CompleteTo("assemble", "produce_save",
                     [video_path |-> StrOfPath(video_path)], "video_path", video_path)

\* lines 128-139: copy the SRT, record the video, save the draft
ProduceSave ==
    /\ pc = "produce_save"
    /\ \E srt_exists \in BOOLEAN :
          LET cr       == loc["captions_result"]
              has_srt  == "srt_path" \in DOMAIN cr /\ cr["srt_path"] # "" /\ srt_exists
              d1       == IF has_srt THEN Put(draft, SrtKey(lang), FinalSrt(lang)) ELSE draft
              d2       == Put(d1, VideoKey(lang), StrOfPath(loc["video_path"]))
              r1       == IF has_srt THEN Put(ref, SrtKey(lang), FinalSrt(lang)) ELSE ref
              r2       == Put(r1, VideoKey(lang), StrOfPath(loc["video_path"]))
          IN  /\ draft' = d2
              /\ ref' = r2
              /\ disk' = save(d2)
    /\ pc' = "done"
    /\ UNCHANGED <<incall, cmd, lang, force, loc, clock, runs>>
    /\ UNCHANGED <<loaded, calls, decided, returned, raisedIn, stopped, prev, refCalls>>

(***************************************************************************)
(* cmd_upload                                                              *)
(***************************************************************************)
UploadStart ==
    \E l \in Langs, f \in BOOLEAN : Load("upload", l, f, "upload_check")

\* lines 154-163: Path("") is the current directory, which always exists
UploadCheck ==
    /\ pc = "upload_check"
    /\ LET video_str == Get(draft, VideoKey(lang), "")
           srt_path  == IF SrtKey(lang) \in DOMAIN draft /\ draft[SrtKey(lang)] # ""
                        THEN Path(draft[SrtKey(lang)])
                        ELSE None
       IN  \E video_exists \in (IF video_str = "" THEN {TRUE} ELSE BOOLEAN) :
              IF ~video_exists
              THEN /\ pc' = "exited"
                   /\ loc' = loc
              ELSE /\ pc' = "thumbnail"
                   /\ loc' = [video_path |-> Path(video_str), srt_path |-> srt_path,
                              thumb_path |-> None]
    /\ UNCHANGED <<disk, draft, incall, cmd, lang, force, clock, runs>>
    /\ UNCHANGED histVars

Thumbnail ==
    /\ pc = "thumbnail" /\ ~incall
    /\ IF ShouldRun("thumbnail")
       THEN Invoke("thumbnail", [out_dir |-> "media"])
       ELSE \E thumb_exists \in BOOLEAN :
               LET thumb_p == get_artifact(draft, "thumbnail", "path", "")
               IN  SkipTo("thumbnail", "upload", "thumb_path",
                          IF thumb_p # "" /\ thumb_exists THEN Path(thumb_p) ELSE None)

ThumbnailReturns ==
    /\ pc = "thumbnail" /\ incall
    /\ \E thumb_path \in ThumbnailResults :
          CompleteTo("thumbnail", "upload", [path |-> StrOfPath(thumb_path)],
                     "thumb_path", thumb_path)

Upload ==
    /\ pc = "upload" /\ ~incall
    /\ IF ShouldRun("upload")
       THEN Invoke("upload", [video_path |-> loc["video_path"], srt_path |-> loc["srt_path"],
                              lang |-> lang, thumb_path |-> loc["thumb_path"]])
       ELSE SkipTo("upload", "upload_save", "url", get_artifact(draft, "upload", "url", ""))

UploadReturns ==
    /\ pc = "upload" /\ incall
    /\ \E url \in UploadResults :
          CompleteTo("upload", "upload_save", [url |-> url], "url", url)

\* lines 183-186
UploadSave ==
    /\ pc = "upload_save"
    /\ draft' = Put(draft, UrlKey(lang), loc["url"])
    /\ ref' = Put(ref, UrlKey(lang), loc["url"])
    /\ disk' = save(draft')
    /\ pc' = "done"
    /\ UNCHANGED <<incall, cmd, lang, force, loc, clock, runs>>
    /\ UNCHANGED <<loaded, calls, decided, returned, raisedIn, stopped, prev, refCalls>>

(***************************************************************************)
(* A collaborator raises.  Only the thumbnail call stands in a try/except  *)
(* (lines 165-169); everywhere else the exception leaves the command.      *)
(***************************************************************************)
Propagates_except_broll(stage) == stage \notin {"thumbnail", "broll"}

Propagates_except_assemble(stage) == stage \notin {"thumbnail", "assemble"}

Propagates(stage) == stage # "thumbnail"

\* where the command goes on when the exception is caught
AfterCaught(stage) ==
    CASE stage = "broll"     -> "voiceover"
      [] stage = "voiceover" -> "captions"
      [] stage = "captions"  -> "music"
      [] stage = "music"     -> "assemble"
      [] stage = "assemble"  -> "produce_save"
      [] stage = "thumbnail" -> "upload"
      [] stage = "upload"    -> "upload_save"

CollaboratorRaises ==
    /\ incall
    /\ incall' = FALSE
    /\ raisedIn' = raisedIn \cup {pc}
    /\ IF Propagates(pc)
       THEN /\ pc' = "raised"
            /\ stopped' = [at |-> pc, incall |-> TRUE]
       ELSE /\ pc' = AfterCaught(pc)
            /\ stopped' = stopped
    /\ UNCHANGED <<disk, draft, cmd, lang, force, loc, clock, runs>>
    /\ UNCHANGED <<loaded, calls, decided, returned, prev, ref, refCalls>>

\* the process dies (kill, power loss) at any point of a command: its memory is
\* gone and the disk is as the last save left it
NoDraft == PipelineState(EmptyDict)

Crash ==
    /\ pc \notin Terminal
    /\ pc' = "crashed"
    /\ stopped' = [at |-> pc, incall |-> incall]
    /\ incall' = FALSE
    /\ draft' = NoDraft
    /\ loc' = EmptyDict
    /\ UNCHANGED <<disk, cmd, lang, force, clock, runs>>
    /\ UNCHANGED <<loaded, calls, decided, returned, raisedIn, prev, ref, refCalls>>

(***************************************************************************)
(* The orchestrator's specification: a draft on disk, then any sequence of *)
(* produce and upload commands, each of which may raise or die.            *)
(***************************************************************************)
NoRun == [cmd |-> "none", lang |-> "en", force |-> FALSE, end |-> "idle",
          at |-> "none", incall |-> FALSE, returned |-> {}, called |-> {}]

LedgerIdle ==
    /\ ops = 0
    /\ hist = EmptyDict

\* no retry wrapper, discovery or caption generator is running
CompIdle ==
    /\ rt = EmptyDict
    /\ eng = EmptyDict
    /\ cap = EmptyDict
    /\ mus = EmptyDict
    /\ dft = EmptyDict
    /\ stg = EmptyDict
    /\ duo = EmptyDict

Init ==
    /\ disk = save(cmd_draft)
    /\ draft = NoDraft
    /\ pc = "idle"
    /\ incall = FALSE
    /\ cmd = "none"
    /\ lang = "en"
    /\ force = FALSE
    /\ loc = EmptyDict
    /\ clock = 2
    /\ runs = 0
    /\ loaded = NoDraft
    /\ ref = NoDraft
    /\ calls = <<>>
    /\ refCalls = <<>>
    /\ decided = {}
    /\ returned = {}
    /\ raisedIn = {}
    /\ stopped = NotStopped
    /\ prev = NoRun
    /\ LedgerIdle
    /\ CompIdle

Next ==
    \/ (ProduceStart /\ UNCHANGED <<ledgerVars, compVars>>)
    \/ (Broll /\ UNCHANGED <<ledgerVars, compVars>>)
    \/ (BrollReturns /\ UNCHANGED <<ledgerVars, compVars>>)
    \/ (Voiceover /\ UNCHANGED <<ledgerVars, compVars>>)
    \/ (VoiceoverReturns /\ UNCHANGED <<ledgerVars, compVars>>)
    \/ (Captions /\ UNCHANGED <<ledgerVars, compVars>>)
    \/ (CaptionsReturns /\ UNCHANGED <<ledgerVars, compVars>>)
    \/ (Music /\ UNCHANGED <<ledgerVars, compVars>>)
    \/ (MusicReturns /\ UNCHANGED <<ledgerVars, compVars>>)
    \/ (Assemble /\ UNCHANGED <<ledgerVars, compVars>>)
    \/ (AssembleReturns /\ UNCHANGED <<ledgerVars, compVars>>)
    \/ (ProduceSave /\ UNCHANGED <<ledgerVars, compVars>>)
    \/ (UploadStart /\ UNCHANGED <<ledgerVars, compVars>>)
    \/ (UploadCheck /\ UNCHANGED <<ledgerVars, compVars>>)
    \/ (Thumbnail /\ UNCHANGED <<ledgerVars, compVars>>)
    \/ (ThumbnailReturns /\ UNCHANGED <<ledgerVars, compVars>>)
    \/ (Upload /\ UNCHANGED <<ledgerVars, compVars>>)
    \/ (UploadReturns /\ UNCHANGED <<ledgerVars, compVars>>)
    \/ (UploadSave /\ UNCHANGED <<ledgerVars, compVars>>)
    \/ (CollaboratorRaises /\ UNCHANGED <<ledgerVars, compVars>>)
    \/ (Crash /\ UNCHANGED <<ledgerVars, compVars>>)

Spec == Init /\ [][Next]_vars

(***************************************************************************)
(* The ledger on its own: any sequence of complete_stage, fail_stage and   *)
(* reset on a PipelineState made from a draft without a ledger, as the     *)
(* tests of tests/test_state.py drive it.                                  *)
(***************************************************************************)
LedgerStages == {"broll", "captions"}

LedgerKeys == {"srt_path", "ass_path"}

LedgerArtifacts ==
    { EmptyDict,
      [srt_path |-> "a.srt"],
      [ass_path |-> "a.ass"],
      [srt_path |-> "b.srt", ass_path |-> "b.ass"] }

LedgerErrors == {"", "API error"}

\* what get_artifact is asked to return for a key that is not there
Default == "<default>"

EntryOf(d, stage) == Get(StateOf(d), stage, EmptyDict)

NoOp == [op |-> "none", args |-> EmptyDict, before |-> EmptyDict]

InitLedger ==
    /\ disk = save(cmd_draft)
    /\ draft = PipelineState(EmptyDict)
    /\ pc = "idle"
    /\ incall = FALSE
    /\ cmd = "none"
    /\ lang = "en"
    /\ force = FALSE
    /\ loc = EmptyDict
    /\ clock = 0
    /\ runs = 0
    /\ loaded = NoDraft
    /\ ref = NoDraft
    /\ calls = <<>>
    /\ refCalls = <<>>
    /\ decided = {}
    /\ returned = {}
    /\ raisedIn = {}
    /\ stopped = NotStopped
    /\ prev = NoRun
    /\ ops = 0
    /\ hist = [s \in LedgerStages |-> NoOp]
    /\ CompIdle

LedgerFrame ==
    /\ UNCHANGED <<disk, pc, incall, cmd, lang, force, loc, runs>>
    /\ UNCHANGED histVars
    /\ UNCHANGED compVars

LedgerComplete ==
    /\ ops < MaxOps
    /\ \E s \in LedgerStages, artifacts \in LedgerArtifacts :
          /\ draft' = complete_stage(draft, s, artifacts, clock)
          /\ hist' = [hist EXCEPT ![s] = [op |-> "complete", args |-> artifacts,
                                          before |-> EntryOf(draft, s)]]
    /\ clock' = clock + 1
    /\ ops' = ops + 1
    /\ LedgerFrame

LedgerFail ==
    /\ ops < MaxOps
    /\ \E s \in LedgerStages, error \in LedgerErrors :
          /\ draft' = fail_stage(draft, s, error, clock)
          /\ hist' = [hist EXCEPT ![s] = [op |-> "fail", args |-> error,
                                          before |-> EntryOf(draft, s)]]
    /\ clock' = clock + 1
    /\ ops' = ops + 1
    /\ LedgerFrame

LedgerReset ==
    /\ ops < MaxOps
    /\ draft' = reset(draft)
    /\ hist' = [s \in LedgerStages |->
                   [op |-> "reset", args |-> EmptyDict, before |-> EntryOf(draft, s)]]
    /\ ops' = ops + 1
    /\ UNCHANGED clock
    /\ LedgerFrame

\* test_save_and_reload: state.save(path), then a second PipelineState made
\* from json.loads(path.read_text()).  ref is the record that was saved and
\* loaded the record the second PipelineState holds.
LedgerSaveReload ==
    /\ disk' = save(draft)
    /\ draft' = PipelineState(json_loads(disk'))
    /\ ref' = draft
    /\ loaded' = draft'
    /\ UNCHANGED <<pc, incall, cmd, lang, force, loc, clock, runs>>
    /\ UNCHANGED <<calls, decided, returned, raisedIn, stopped, prev, refCalls>>
    /\ UNCHANGED ledgerVars
    /\ UNCHANGED compVars

NextLedger ==
    \/ LedgerComplete
    \/ LedgerFail
    \/ LedgerReset
    \/ LedgerSaveReload

SpecLedger == InitLedger /\ [][NextLedger]_vars

(***************************************************************************)
(* Properties.  They read the ledger through the two readers below, not    *)
(* through the operators that model the code.                              *)
(***************************************************************************)
\* "done", "failed", or "pending" for a stage without an entry
StatusIn(d, stage) ==
    LET st == d["_pipeline_state"]
    IN  IF stage \in DOMAIN st /\ "status" \in DOMAIN st[stage]
        THEN st[stage]["status"]
        ELSE "pending"

\* the artifact a done stage recorded under key
Recorded(d, stage, key) == d["_pipeline_state"][stage]["artifacts"][key]

OnDisk == json_loads(disk)

CalledStages == {calls[i].stage : i \in 1..Len(calls)}

StagesOf(command) ==
    IF command = "produce" THEN Range(ProduceStages)
    ELSE IF command = "upload" THEN Range(UploadStages)
    ELSE {}

InProcess == pc \notin {"idle", "crashed", "exited"}

\* what the skipped stage's local holds, for the stages read back as recorded
ReadBackExact(stage) ==
    CASE stage = "broll"     -> loc["frames"] = PathList(Recorded(loaded, "broll", "frames"))
      [] stage = "voiceover" -> loc["vo_path"] = Path(Recorded(loaded, "voiceover", "path"))
      [] stage = "captions"  ->
            /\ loc["captions_result"]["srt_path"] = Recorded(loaded, "captions", "srt_path")
            /\ loc["captions_result"]["ass_path"] = Recorded(loaded, "captions", "ass_path")
      [] stage = "music"     ->
            /\ loc["music_result"]["track_path"] = Recorded(loaded, "music", "track_path")
            /\ loc["music_result"]["duck_filter"] = Recorded(loaded, "music", "duck_filter")
      [] stage = "assemble"  ->
            /\ loc["video_path"] = Path(Recorded(loaded, "assemble", "video_path"))
            /\ pc = "done" => OnDisk[VideoKey(lang)] = Recorded(loaded, "assemble", "video_path")
      [] stage = "thumbnail" -> loc["thumb_path"] = Path(Recorded(loaded, "thumbnail", "path"))
      [] stage = "upload"    ->
            /\ loc["url"] = Recorded(loaded, "upload", "url")
            /\ pc = "done" => OnDisk[UrlKey(lang)] = Recorded(loaded, "upload", "url")

\* C1 as stated: in produce and upload without force, a stage the loaded ledger
\* reports done has no collaborator call in the run, and the value the command
\* carries forward for it is the artifact recorded in the loaded ledger.
C1_ReadBackAsRecorded ==
    (InProcess /\ ~force) =>
        \A stage \in decided :
            StatusIn(loaded, stage) = "done" =>
                stage \notin CalledStages /\ ReadBackExact(stage)

\* C1 amended: the same for every stage but thumbnail, whose recorded path is
\* carried forward only while the file exists; otherwise the command goes on
\* with no thumbnail (None).
C1_ReadBackOrNoThumbnail ==
    (InProcess /\ ~force) =>
        \A stage \in decided :
            StatusIn(loaded, stage) = "done" =>
                /\ stage \notin CalledStages
                /\ IF stage = "thumbnail"
                   THEN loc["thumb_path"] \in {Path(Recorded(loaded, "thumbnail", "path")), None}
                   ELSE ReadBackExact(stage)

\* a produce without force that skipped all five stages and saved, and an
\* upload without force that skipped both of its stages
C1_Witness ==
    /\ pc = "done" /\ ~force
    /\ decided \cap CalledStages = {}
    /\ \/ cmd = "produce" /\ decided = Range(ProduceStages)
       \/ cmd = "upload" /\ decided = Range(UploadStages)
    /\ \A stage \in decided : StatusIn(loaded, stage) = "done"

\* C2: while a stage's collaborator is executing, the draft on disk already
\* holds the completion of every stage this run completed before it (the entry
\* written by this run).
C2_PersistedAfterEachStage ==
    (InProcess /\ incall) =>
        \A stage \in returned :
            /\ StatusIn(OnDisk, stage) = "done"
            /\ OnDisk["_pipeline_state"][stage]["timestamp"]
                  = draft["_pipeline_state"][stage]["timestamp"]

\* C3: a produce without force that follows a produce which raised or died in
\* the collaborator of stage S calls no collaborator of a stage that run
\* completed, and its first call is S's.
C3_ResumeSkipsCompleted ==
    ( /\ cmd = "produce" /\ ~force
      /\ prev.cmd = "produce" /\ prev.end \in {"raised", "crashed"} /\ prev.incall )
    => /\ CalledStages \cap prev.returned = {}
       /\ Len(calls) >= 1 => calls[1].stage = prev.at

\* C4: when a collaborator's exception has left the command, the ledger the
\* command held reports that stage failed.
C4_FailureRecorded ==
    pc = "raised" => StatusIn(draft, stopped.at) = "failed"

C6_CrashLeavesPending ==
    (pc = "crashed" /\ stopped.incall) =>
        StatusIn(PipelineState(OnDisk), stopped.at) # "done"

\* C7: a stage the command has reached was called exactly when force is set
\* or the loaded ledger does not report it done; a forced command that ran to
\* its end called every one of its stages.
C7_CalledIffForcedOrNotDone ==
    /\ \A stage \in decided :
          stage \in CalledStages <=> (force \/ StatusIn(loaded, stage) # "done")
    /\ (pc = "done" /\ force) => CalledStages = StagesOf(cmd)
    /\ pc = "done" => decided = StagesOf(cmd)

\* a forced produce on a ledger that reports all five stages done called them all
C7_Witness ==
    /\ pc = "done" /\ force /\ cmd = "produce"
    /\ \A stage \in Range(ProduceStages) : StatusIn(loaded, stage) = "done"
    /\ CalledStages = Range(ProduceStages)

\* C8: a forced command that ran to its end made the calls, and left the ledger
\* entries for its stages, of the run that clears each entry before its stage
\* and decides without force.
C8_ForceEqualsResetPerStage ==
    (pc = "done" /\ force) =>
        /\ refCalls = [i \in 1..Len(calls) |-> calls[i].stage]
        /\ \A stage \in StagesOf(cmd) :
              Get(ref["_pipeline_state"], stage, EmptyDict)
                 = Get(draft["_pipeline_state"], stage, EmptyDict)

(***************************************************************************)
(* Properties of the ledger alone (SpecLedger).                            *)
(***************************************************************************)
\* C9: is_done(s) exactly when the latest of complete_stage(s), fail_stage(s)
\* and reset() was complete_stage(s); is_failed(s) exactly when it was
\* fail_stage(s); never both, and neither before any operation or after reset().
C9_StatusFollowsLastOperation ==
    \A s \in LedgerStages :
        /\ is_done(draft, s) <=> hist[s].op = "complete"
        /\ is_failed(draft, s) <=> hist[s].op = "fail"
        /\ ~(is_done(draft, s) /\ is_failed(draft, s))
        /\ hist[s].op \in {"none", "reset"} => ~is_done(draft, s) /\ ~is_failed(draft, s)

\* after complete, fail on one stage and reset, a stage failed again
C9_Witness ==
    /\ hist["broll"].op = "reset"
    /\ "status" \in DOMAIN hist["broll"].before
    /\ hist["captions"].op = "fail"
    /\ is_failed(draft, "captions")

\* C10: after complete_stage(s, artifacts) the entry of s is done, holds exactly
\* the artifacts of this call (get_artifact gives the default for every other
\* key) and carries no error of an earlier fail_stage(s).
C10_CompleteOverwrites ==
    \A s \in LedgerStages :
        hist[s].op = "complete" =>
            /\ StatusIn(draft, s) = "done"
            /\ \A k \in LedgerKeys :
                  get_artifact(draft, s, k, Default) = Get(hist[s].args, k, Default)
            /\ DOMAIN Get(EntryOf(draft, s), "artifacts", EmptyDict) = DOMAIN hist[s].args
            /\ "error" \notin DOMAIN EntryOf(draft, s)

\* one stage completed over a failed entry, the other completed with fewer
\* artifact keys than the entry it replaced
C10_Witness ==
    /\ hist["broll"].op = "complete"
    /\ "error" \in DOMAIN hist["broll"].before
    /\ hist["captions"].op = "complete"
    /\ "artifacts" \in DOMAIN hist["captions"].before
    /\ DOMAIN hist["captions"].before["artifacts"] \ DOMAIN hist["captions"].args # {}
\* C11: fail_stage does not retain prior artifacts.  While the latest operation
\* on a stage is fail_stage(s, error), get_artifact(s, key, default) returns
\* default for every key, the entry holds no artifacts, and the entry records
\* the error message that was given.
C11_FailDropsArtifacts ==
    \A s \in LedgerStages :
        hist[s].op = "fail" =>
            /\ \A k \in LedgerKeys : get_artifact(draft, s, k, Default) = Default
            /\ "artifacts" \notin DOMAIN draft["_pipeline_state"][s]
            /\ "error" \in DOMAIN draft["_pipeline_state"][s]
            /\ draft["_pipeline_state"][s]["error"] = hist[s].args

\* a stage that was done with artifacts has been failed with a message
C11_Witness ==
    \E s \in LedgerStages :
        /\ hist[s].op = "fail"
        /\ hist[s].args = "API error"
        /\ "status" \in DOMAIN hist[s].before
        /\ hist[s].before["status"] = "done"
        /\ "artifacts" \in DOMAIN hist[s].before

\* what the latest operation on the stage leaves to be read under key
ExpectedArtifact(s, k) ==
    IF hist[s].op = "complete" /\ k \in DOMAIN hist[s].args
    THEN hist[s].args[k]
    ELSE Default

\* C12: in every ledger reached by complete_stage, fail_stage and reset from
\* an empty one, get_artifact(stage, key, default) returns the value the most
\* recent complete_stage(stage, artifacts) recorded under key when the stage
\* is done and key is in those artifacts, and default in every other case, in
\* particular whenever the stage is not done.
C12_ArtifactOfLatestCompletion ==
    \A s \in LedgerStages, k \in LedgerKeys :
        /\ get_artifact(draft, s, k, Default) = ExpectedArtifact(s, k)
        /\ StatusIn(draft, s) # "done" => get_artifact(draft, s, k, Default) = Default
        /\ (StatusIn(draft, s) = "done" /\ get_artifact(draft, s, k, Default) # Default)
              => hist[s].op = "complete"

\* one stage is done and holds only srt_path, after an earlier completion that
\* also held ass_path; the other stage holds ass_path or was failed after
\* holding it
C12_Witness ==
    \E s \in LedgerStages, o \in LedgerStages :
        /\ o # s
        /\ StatusIn(draft, s) = "done"
        /\ hist[s].op = "complete"
        /\ DOMAIN hist[s].args = {"srt_path"}
        /\ "ass_path" \in DOMAIN Get(hist[s].before, "artifacts", EmptyDict)
        /\ hist[o].op = "fail"
        /\ "ass_path" \in DOMAIN Get(hist[o].before, "artifacts", EmptyDict)

MaxRetries == 3

\* the largest base_delay a wrapper is made with
MaxBaseDelay == 2

RetValues == {"success", "done"}

ExcTypes == {"ValueError", "RuntimeError"}

\* nothing but the component under study runs
OrchIdle ==
    /\ disk = save(cmd_draft)
    /\ draft = NoDraft
    /\ pc = "idle"
    /\ incall = FALSE
    /\ cmd = "none"
    /\ lang = "en"
    /\ force = FALSE
    /\ loc = EmptyDict
    /\ clock = 0
    /\ runs = 0
    /\ loaded = NoDraft
    /\ ref = NoDraft
    /\ calls = <<>>
    /\ refCalls = <<>>
    /\ decided = {}
    /\ returned = {}
    /\ raisedIn = {}
    /\ stopped = NotStopped
    /\ prev = NoRun
    /\ LedgerIdle

\* for attempt in range(max_retries + 1)
InRange(attempt, max_retries) == attempt < max_retries + 1

WillSleep_after_every_failure(attempt, max_retries) == attempt <= max_retries

\* if attempt < max_retries
WillSleep(attempt, max_retries) == attempt < max_retries

Delay_linear(base_delay, attempt) == base_delay * (attempt + 1)

\* delay = base_delay * (2 ** attempt)
Delay(base_delay, attempt) == base_delay * (2 ^ attempt)

InitRetry ==
    /\ OrchIdle
    /\ eng = EmptyDict
    /\ cap = EmptyDict
    /\ mus = EmptyDict
    /\ dft = EmptyDict
    /\ stg = EmptyDict
    /\ duo = EmptyDict
    /\ \E mr \in 0..MaxRetries, bd \in 1..MaxBaseDelay :
          rt = [max_retries |-> mr, base_delay |-> bd, attempt |-> 0, pc |-> "loop",
                last_exc |-> None, result |-> None, events |-> <<>>]

RetryFrame == UNCHANGED <<progVars, histVars, ledgerVars, eng, cap, mus, dft, stg, duo>>

\* the invocations of the wrapped function so far
Invocations(events) == {i \in 1..Len(events) : events[i].kind = "call"}

\* return func(*args, **kwargs), when func returns
RetryFuncReturns ==
    /\ rt # EmptyDict
    /\ rt.pc = "loop"
    /\ InRange(rt.attempt, rt.max_retries)
    /\ \E v \in RetValues :
          rt' = [rt EXCEPT !.pc = "returned", !.result = v,
                           !.events = Append(@, [kind |-> "call", out |-> "return",
                                                 value |-> v])]
    /\ RetryFrame

\* func raises: except Exception as e, then the sleep before the next attempt
\* or the error log after the last one
RetryFuncRaises ==
    /\ rt # EmptyDict
    /\ rt.pc = "loop"
    /\ InRange(rt.attempt, rt.max_retries)
    /\ \E t \in ExcTypes :
          LET e      == [type |-> t, at |-> Cardinality(Invocations(rt.events)) + 1]
              called == Append(rt.events, [kind |-> "call", out |-> "raise", exc |-> e])
          IN  rt' = [rt EXCEPT
                  !.last_exc = e,
                  !.attempt = @ + 1,
                  !.events = IF WillSleep(rt.attempt, rt.max_retries)
                             THEN Append(called, [kind |-> "sleep",
                                                  delay |-> Delay(rt.base_delay, rt.attempt)])
                             ELSE called]
    /\ RetryFrame

\* the loop is over: raise last_exc
RetryExhausted ==
    /\ rt # EmptyDict
    /\ rt.pc = "loop"
    /\ ~InRange(rt.attempt, rt.max_retries)
    /\ rt' = [rt EXCEPT !.pc = "raised", !.result = rt.last_exc]
    /\ RetryFrame

NextRetry ==
    \/ RetryFuncReturns
    \/ RetryFuncRaises
    \/ RetryExhausted

SpecRetry == InitRetry /\ [][NextRetry]_vars

\* the delays slept so far, in order
Sleeps(events) ==
    LET idx == {i \in 1..Len(events) : events[i].kind = "sleep"}
        nth[n \in 0..Cardinality(idx)] ==
            IF n = 0 THEN 0
            ELSE CHOOSE i \in idx : i > nth[n - 1] /\ \A j \in idx : j > nth[n - 1] => i <= j
    IN  [n \in 1..Cardinality(idx) |-> events[nth[n]].delay]

\* invocations and sleeps alternate, starting with an invocation
Alternating(events) ==
    \A i \in 1..Len(events) :
        events[i].kind = IF i % 2 = 1 THEN "call" ELSE "sleep"

\* C14: retry wrapper, success path.  When the wrapped function fails k times
\* and then succeeds (k <= max_retries), the wrapper returns the value of the
\* successful invocation, has invoked the function exactly k+1 times with the
\* success last, and has slept exactly k times: base_delay first, every later
\* delay twice the one before, each sleep between two consecutive invocations.
C14_RetrySuccessPath ==
    (rt # EmptyDict /\ rt.pc = "returned") =>
        LET ev == rt.events
            k  == Cardinality({i \in Invocations(ev) : ev[i].out = "raise"})
            sl == Sleeps(ev)
        IN  /\ k <= rt.max_retries
            /\ Cardinality(Invocations(ev)) = k + 1
            /\ ev[Len(ev)].kind = "call"
            /\ ev[Len(ev)].out = "return"
            /\ rt.result = ev[Len(ev)].value
            /\ \A i \in Invocations(ev) : i < Len(ev) => ev[i].out = "raise"
            /\ Len(sl) = k
            /\ \A n \in 1..k : sl[n] = IF n = 1 THEN rt.base_delay ELSE 2 * sl[n - 1]
            /\ Len(ev) = 2 * k + 1
            /\ Alternating(ev)

\* the function succeeded at its last allowed attempt, after three failures
C14_Witness ==
    /\ rt # EmptyDict
    /\ rt.pc = "returned"
    /\ rt.max_retries = 3
    /\ rt.base_delay = 2
    /\ Len(rt.events) = 7

\* C15: retry wrapper, exhaustion path.  For every max_retries >= 0 and a
\* function that fails at every invocation, the wrapper stops after exactly
\* max_retries+1 invocations, having slept exactly max_retries times with no
\* sleep after the final attempt, and raises the exception the last invocation
\* raised.  Until then the function is never invoked more than max_retries+1
\* times and the wrapper always has a next step.
C15_RetryExhaustionPath ==
    rt # EmptyDict =>
        LET ev == rt.events
            n  == Cardinality(Invocations(ev))
        IN  /\ n <= rt.max_retries + 1
            /\ rt.pc = "loop" => ENABLED NextRetry
            /\ rt.pc = "loop" => rt.attempt = n
            /\ rt.pc = "raised" =>
                  /\ n = rt.max_retries + 1
                  /\ \A i \in Invocations(ev) : ev[i].out = "raise"
                  /\ Len(Sleeps(ev)) = rt.max_retries
                  /\ ev[Len(ev)].kind = "call"
                  /\ rt.result = ev[Len(ev)].exc
                  /\ rt.result.at = n

\* the wrapper gave up after max_retries = 2 retries; the last attempt raised
\* another exception than the first
C15_Witness ==
    /\ rt # EmptyDict
    /\ rt.pc = "raised"
    /\ rt.max_retries = 2
    /\ rt.events[1].exc.type = "ValueError"
    /\ rt.result.type = "RuntimeError"

\* max_retries = 0: one invocation, no sleep
C15_WitnessNoRetry ==
    /\ rt # EmptyDict
    /\ rt.pc = "raised"
    /\ rt.max_retries = 0

(***************************************************************************)
(* Topic discovery (pipeline/topics/engine.py): one call of                *)
(* TopicEngine.discover(limit).  Every available source's fetch_topics runs *)
(* in a worker thread; discover collects the futures as they complete.     *)
(* A title is a sequence of characters; a trending score is in tenths.     *)
(***************************************************************************)
\* the largest limit discover is called with
MaxLimit == 3

\* key = ...[:50]
KeyLen == 50

\* self._sources, in the order _load_sources registers them
Sources == <<"reddit", "rss", "google_trends">>

SourceNames == {Sources[i] : i \in 1..Len(Sources)}

\* str.lower, on the characters the titles below are made of
LowerChar(c) ==
    CASE c = "A" -> "a"
      [] c = "I" -> "i"
      [] OTHER   -> c

Lower(title) == [i \in 1..Len(title) |-> LowerChar(title[i])]

\* str.strip: leading and trailing whitespace removed
RECURSIVE Strip(_)
Strip(title) ==
    IF title = <<>> THEN <<>>
    ELSE IF Head(title) = " " THEN Strip(Tail(title))
    ELSE IF title[Len(title)] = " " THEN Strip(SubSeq(title, 1, Len(title) - 1))
    ELSE title

\* seq[:n], as Python slices: a negative n counts from the end
Slice(seq, n) ==
    IF n >= 0
    THEN SubSeq(seq, 1, IF n < Len(seq) THEN n ELSE Len(seq))
    ELSE SubSeq(seq, 1, IF Len(seq) + n > 0 THEN Len(seq) + n ELSE 0)

\* key = t.title.lower().strip()[:50]
DedupKey(title) == Slice(Strip(Lower(title)), KeyLen)

RECURSIVE DedupeFrom(_, _, _)
DedupeFrom(topics, seen, unique) ==
    IF topics = <<>> THEN unique
    ELSE LET t   == Head(topics)
             key == DedupKey(t.title)
         IN  IF key \notin seen
             THEN DedupeFrom(Tail(topics), seen \cup {key}, Append(unique, t))
             ELSE DedupeFrom(Tail(topics), seen, unique)

RECURSIVE Dedupe_keeping_last(_)
Dedupe_keeping_last(all_topics) ==
    IF all_topics = <<>> THEN <<>>
    ELSE LET t == Head(all_topics)
         IN  IF \E i \in 2..Len(all_topics) :
                    DedupKey(all_topics[i].title) = DedupKey(t.title)
             THEN Dedupe_keeping_last(Tail(all_topics))
             ELSE <<t>> \o Dedupe_keeping_last(Tail(all_topics))

\* seen = set(); unique = []; for t in all_topics: ...
Dedupe(all_topics) == DedupeFrom(all_topics, {}, <<>>)

\* t goes after every element whose score is not lower: equal scores keep
\* their order
RECURSIVE InsertByScore(_, _)
InsertByScore(sorted, t) ==
    IF sorted = <<>> THEN <<t>>
    ELSE IF Head(sorted).trending_score >= t.trending_score
         THEN <<Head(sorted)>> \o InsertByScore(Tail(sorted), t)
         ELSE <<t>> \o sorted

RECURSIVE SortFrom(_, _)
SortFrom(rest, sorted) ==
    IF rest = <<>> THEN sorted
    ELSE SortFrom(Tail(rest), InsertByScore(sorted, Head(rest)))

RankByScore_reversing_ties(unique) ==
    SortFrom([i \in 1..Len(unique) |-> unique[Len(unique) + 1 - i]], <<>>)

\* unique.sort(key=lambda t: t.trending_score, reverse=True): list.sort is
\* stable, with reverse=True too
RankByScore(unique) == SortFrom(unique, <<>>)

Caught_connection_errors_only(exc) == exc = "ConnectionError"

\* except Exception as e
Caught(exc) == exc \in {"ConnectionError", "ValueError", "TimeoutError"}

Cand(title, source, score) ==
    [title |-> title, source |-> source, trending_score |-> score]

Xs(n) == [i \in 1..n |-> "x"]

\* what a source's fetch_topics may return
TopicLists(src) ==
    CASE src = "reddit" ->
            { << Cand(<<"A", "I">>, src, 9), Cand(<<"g", "o">>, src, 5) >>,
              << Cand(Xs(KeyLen) \o <<"1">>, src, 5), Cand(<<" ", "a", "i">>, src, 7),
                 Cand(Xs(KeyLen) \o <<"2">>, src, 8) >> }
      [] src = "rss" ->
            { << Cand(<<"a", "i">>, src, 5) >>,
              << Cand(<<" ">> \o Xs(KeyLen - 1) \o <<"1">>, src, 5),
                 Cand(<<" ">> \o Xs(KeyLen - 1) \o <<"2">>, src, 3),
                 Cand(<<"g", "o">>, src, 5) >> }
      [] OTHER ->
            { << Cand(<<"u", "p">>, src, 5), Cand(<<"A", "i">>, src, 2) >> }

\* what a source does in this call: it is not available; its fetch returns,
\* in time or only after the 15 s of future.result(timeout=15); it raises; or
\* it never returns
Behaviours(src) ==
    {[available |-> FALSE, kind |-> "ok", topics |-> <<>>, exc |-> "none"]}
    \cup {[available |-> TRUE, kind |-> k, topics |-> l, exc |-> "none"] :
             k \in (IF src = "rss" THEN {"ok"} ELSE {"ok", "late"}), l \in TopicLists(src)}
    \cup {[available |-> TRUE, kind |-> "raise", topics |-> <<>>, exc |-> e] :
             e \in (IF src = "reddit" THEN {"ConnectionError"} ELSE {"ValueError"})}
    \cup (IF src = "google_trends" THEN {}
          ELSE {[available |-> TRUE, kind |-> "hang", topics |-> <<>>, exc |-> "none"]})

Submitted == {src \in SourceNames : eng.plan[src].available}

InitEngine ==
    /\ OrchIdle
    /\ rt = EmptyDict
    /\ cap = EmptyDict
    /\ mus = EmptyDict
    /\ dft = EmptyDict
    /\ stg = EmptyDict
    /\ duo = EmptyDict
    /\ \E limit \in 0..MaxLimit :
       \E plan \in [SourceNames -> UNION {Behaviours(src) : src \in SourceNames}] :
          /\ \A src \in SourceNames : plan[src] \in Behaviours(src)
          /\ eng = [pc |-> "start", limit |-> limit, plan |-> plan,
                    fut |-> [src \in SourceNames |-> "none"],
                    order |-> <<>>, all_topics |-> <<>>,
                    unique |-> <<>>, result |-> <<>>]

EngineFrame == UNCHANGED <<progVars, histVars, ledgerVars, rt, cap, mus, dft, stg, duo>>

\* pool.submit(src.fetch_topics, limit) for src in self._sources if src.is_available
EngineSubmit ==
    /\ eng # EmptyDict
    /\ eng.pc = "start"
    /\ eng' = [eng EXCEPT !.pc = "collecting",
                          !.fut = [src \in SourceNames |->
                                      IF src \in Submitted THEN "running" ELSE "none"]]
    /\ EngineFrame

\* a worker's fetch_topics returns or raises: its future is done.  A source
\* that hangs never gets here.
FetchEnds ==
    /\ eng # EmptyDict
    /\ \E src \in SourceNames :
          /\ eng.fut[src] = "running"
          /\ eng.plan[src].kind # "hang"
          /\ eng' = [eng EXCEPT !.fut[src] = "done"]
    /\ EngineFrame

\* one turn of `for future in as_completed(futures)`: a done future is taken,
\* future.result returns at once, its topics are appended or its exception is
\* caught
EngineCollect ==
    /\ eng # EmptyDict
    /\ eng.pc = "collecting"
    /\ \E src \in SourceNames :
          /\ eng.fut[src] = "done"
          /\ IF eng.plan[src].kind = "raise"
             THEN IF Caught(eng.plan[src].exc)
                  THEN eng' = [eng EXCEPT !.fut[src] = "collected",
                                          !.order = Append(@, src)]
                  ELSE eng' = [eng EXCEPT !.fut[src] = "collected",
                                          !.order = Append(@, src),
                                          !.pc = "raised"]
             ELSE eng' = [eng EXCEPT !.fut[src] = "collected",
                                     !.order = Append(@, src),
                                     !.all_topics = @ \o eng.plan[src].topics]
    /\ EngineFrame

\* as_completed has yielded every future and the executor has shut down:
\* deduplicate, sort, truncate, return
EngineFinish ==
    /\ eng # EmptyDict
    /\ eng.pc = "collecting"
    /\ \A src \in Submitted : eng.fut[src] = "collected"
    /\ LET unique == Dedupe(eng.all_topics)
       IN  eng' = [eng EXCEPT !.pc = "returned",
                              !.unique = unique,
                              !.result = Slice(RankByScore(unique), eng.limit)]
    /\ EngineFrame

NextEngine ==
    \/ EngineSubmit
    \/ FetchEnds
    \/ EngineCollect
    \/ EngineFinish

SpecEngine == InitEngine /\ [][NextEngine]_vars

\* the available sources whose fetch returned normally
ReturnedNormally == {src \in Submitted : eng.plan[src].kind \in {"ok", "late"}}

\* the candidates of a sequence
Members(seq) == {seq[i] : i \in 1..Len(seq)}

Keys(seq) == {DedupKey(seq[i].title) : i \in 1..Len(seq)}

\* the elements of seq at the positions of idx, in order
Pick(seq, idx) ==
    LET nth[n \in 0..Cardinality(idx)] ==
            IF n = 0 THEN 0
            ELSE CHOOSE i \in idx : i > nth[n - 1] /\ \A j \in idx : j > nth[n - 1] => i <= j
    IN  [n \in 1..Cardinality(idx) |-> seq[nth[n]]]

\* C16: topic discovery isolates source failures.  discover never raises
\* because a source's fetch raised; when it returns, the merged candidates are
\* those of exactly the sources that returned normally, each source's in its
\* own order, every one of their titles is represented among the deduplicated
\* candidates, and every returned candidate is one of theirs.
C16_FailuresIsolated ==
    eng # EmptyDict =>
        /\ eng.pc # "raised"
        /\ eng.pc = "returned" =>
              /\ \A src \in SourceNames :
                    Pick(eng.all_topics,
                         {i \in 1..Len(eng.all_topics) : eng.all_topics[i].source = src})
                      = IF src \in ReturnedNormally THEN eng.plan[src].topics ELSE <<>>
              /\ \A src \in ReturnedNormally :
                    Keys(eng.plan[src].topics) \subseteq Keys(eng.unique)
              /\ Members(eng.unique) \subseteq Members(eng.all_topics)
              /\ Members(eng.result) \subseteq Members(eng.unique)
              /\ eng.limit >= Len(eng.unique) => Members(eng.result) = Members(eng.unique)

\* discover returned candidates although a source raised, and that source was
\* collected before a source that returned candidates
C16_Witness ==
    /\ eng # EmptyDict
    /\ eng.pc = "returned"
    /\ eng.result # <<>>
    /\ \E a \in Submitted, b \in ReturnedNormally :
          /\ eng.plan[a].kind = "raise"
          /\ \E i, j \in 1..Len(eng.order) :
                i < j /\ eng.order[i] = a /\ eng.order[j] = b

\* C17: a hanging source never blocks discovery.  Once every available source
\* that does return in time has been collected, discover can return, whether
\* or not a source hangs; and what it returns holds no candidate of a source
\* that returned only after the 15 s per-source timeout.
C17_HungSourceDoesNotBlock ==
    eng # EmptyDict =>
        /\ (/\ eng.pc = "collecting"
            /\ \A src \in Submitted :
                  eng.plan[src].kind \in {"ok", "raise"} => eng.fut[src] = "collected")
           => ENABLED EngineFinish
        /\ eng.pc = "returned" =>
              \A src \in Submitted :
                  eng.plan[src].kind = "late" =>
                      \A i \in 1..Len(eng.all_topics) : eng.all_topics[i].source # src

\* the first 50 characters of a title, ignoring case
RawKey(title) == Lower(Slice(title, KeyLen))

\* the positions of all_topics whose key, under key(_), no earlier position has
FirstOccurrences(all_topics, key(_)) ==
    {i \in 1..Len(all_topics) :
        \A j \in 1..(i - 1) : key(all_topics[j].title) # key(all_topics[i].title)}

\* C18 as stated: two candidates are duplicates exactly when the first 50
\* characters of their titles are equal ignoring case; of duplicates only the
\* first occurrence in the merged sequence is kept, and the kept candidates
\* keep their order of first occurrence.
C18_DedupOnFirst50IgnoringCase ==
    (eng # EmptyDict /\ eng.pc = "returned") =>
        eng.unique = Pick(eng.all_topics, FirstOccurrences(eng.all_topics, RawKey))

\* C18 amended: two candidates are duplicates exactly when their titles,
\* lower-cased and then stripped of leading and trailing whitespace, are equal
\* in their first 50 characters; of duplicates only the first occurrence in
\* the merged sequence is kept, and the kept candidates keep their order of
\* first occurrence.
C18_DedupOnStrippedKey ==
    (eng # EmptyDict /\ eng.pc = "returned") =>
        eng.unique = Pick(eng.all_topics, FirstOccurrences(eng.all_topics, DedupKey))

\* two candidates of different sources that differ in case only, and two titles
\* that differ after their 50th character only, were merged; one of each pair
\* was dropped
C18_Witness ==
    /\ eng # EmptyDict
    /\ eng.pc = "returned"
    /\ \E i, j \in 1..Len(eng.all_topics) :
          /\ i < j
          /\ eng.all_topics[i].title # eng.all_topics[j].title
          /\ Len(eng.all_topics[i].title) > KeyLen
          /\ DedupKey(eng.all_topics[i].title) = DedupKey(eng.all_topics[j].title)
          /\ eng.all_topics[j] \notin Members(eng.unique)
    /\ \E i, j \in 1..Len(eng.all_topics) :
          /\ i < j
          /\ eng.all_topics[i].source # eng.all_topics[j].source
          /\ Len(eng.all_topics[i].title) = 2
          /\ eng.all_topics[i].title # eng.all_topics[j].title
          /\ Lower(eng.all_topics[i].title) = Lower(eng.all_topics[j].title)
          /\ eng.all_topics[i] \in Members(eng.unique)
          /\ eng.all_topics[j] \notin Members(eng.unique)

\* the position of a candidate among the deduplicated candidates
PosIn(seq, c) == CHOOSE i \in 1..Len(seq) : seq[i] = c

\* a goes before b in the ranking: a higher score, or the same score and an
\* earlier place before the sort
Before(a, b) ==
    \/ a.trending_score > b.trending_score
    \/ /\ a.trending_score = b.trending_score
       /\ PosIn(eng.unique, a) < PosIn(eng.unique, b)

\* C19: ranking and truncation.  For every limit >= 0 discover returns the
\* first `limit` of the deduplicated candidates sorted by trending score
\* descending, ties in their pre-sort order: never more than limit candidates,
\* all of them if limit allows, each returned candidate ranked before the
\* ones after it and before every candidate left out, so that none returned
\* has a lower score than one left out.
C19_RankedAndTruncated ==
    (eng # EmptyDict /\ eng.pc = "returned") =>
        LET r == eng.result
            u == eng.unique
        IN  /\ Len(r) <= eng.limit
            /\ Len(r) = IF eng.limit < Len(u) THEN eng.limit ELSE Len(u)
            /\ Members(r) \subseteq Members(u)
            /\ \A i, j \in 1..Len(r) : i < j => Before(r[i], r[j])
            /\ \A x \in Members(r), c \in Members(u) \ Members(r) :
                  /\ Before(x, c)
                  /\ x.trending_score >= c.trending_score

\* two candidates were returned and one was left out; a returned one and the
\* one left out tie, and two returned ones tie
C19_Witness ==
    /\ eng # EmptyDict
    /\ eng.pc = "returned"
    /\ eng.limit = 3
    /\ Len(eng.result) = 3
    /\ \E x \in Members(eng.result), c \in Members(eng.unique) \ Members(eng.result) :
          x.trending_score = c.trending_score
    /\ \E i, j \in 1..3 :
          i < j /\ eng.result[i].trending_score = eng.result[j].trending_score

(***************************************************************************)
(* Caption synthesis (pipeline/captions.py): word grouping and the two     *)
(* renderings of a word-timestamp sequence.  Times are in milliseconds.    *)
(***************************************************************************)
\* the longest word sequence given to the generators
MaxWords == 9

\* the largest group_size given to _group_words
MaxGroupSize == 5

\* def _group_words(words, group_size: int = 4)
DefaultGroupSize == 4

Word(w, start, end) == [word |-> w, start |-> start, end |-> end]

\* the sample_words fixture
SampleWords ==
    << Word("This", 0, 300), Word("is", 300, 500), Word("a", 500, 600),
       Word("test", 600, 1000), Word("of", 1200, 1400), Word("the", 1400, 1600),
       Word("caption", 1600, 2000), Word("system", 2000, 2500), Word("for", 2800, 3000),
       Word("YouTube", 3000, 3400), Word("Shorts", 3400, 3800),
       Word("pipeline", 3800, 4300) >>

\* words of equal length each, as test_group_words_uneven has them, up to an hour in
EvenWords ==
    [i \in 1..12 |-> Word(<<"one", "two", "three", "four", "five", "six", "seven",
                            "eight", "nine", "ten", "eleven", "twelve">>[i],
                          3599100 + 300 * (i - 1), 3599100 + 300 * i)]

group_words_dropping_remainder(words, group_size) ==
    [n \in 1..(Len(words) \div group_size) |->
        SubSeq(words, (n - 1) * group_size + 1, n * group_size)]

\* for i in range(0, len(words), group_size): groups.append(words[i:i + group_size])
RECURSIVE GroupsFrom(_, _, _)
GroupsFrom(words, i, group_size) ==
    IF i >= Len(words) THEN <<>>
    ELSE <<SubSeq(words, i + 1,
                  IF i + group_size < Len(words) THEN i + group_size ELSE Len(words))>>
         \o GroupsFrom(words, i + group_size, group_size)

group_words(words, group_size) == GroupsFrom(words, 0, group_size)

\* " ".join(parts)
RECURSIVE JoinSpace(_)
JoinSpace(parts) ==
    IF parts = <<>> THEN ""
    ELSE IF Len(parts) = 1 THEN parts[1]
    ELSE parts[1] \o " " \o JoinSpace(Tail(parts))

\* the times of the word pools, in ms, whose double lies below the decimal
\* it was read from (1.2 is 1.19999999999999995...): for these seconds % 1
\* times 100, or times 1000, falls just short of a whole number
FallsShort ==
    {1200, 1400, 2800, 3400, 3800, 4300,
     3599100, 3599700, 3600600, 3601200, 3602100, 3602700}

\* int((seconds % 1) * per), in double arithmetic: int() drops the fraction
FracTimes(ms, per) ==
    LET exact == ((ms % 1000) * per) \div 1000
    IN  IF ms \in FallsShort THEN exact - 1 ELSE exact

\* H:MM:SS.cc, as its four numbers
format_ass_time(ms) ==
    << ms \div 3600000, (ms % 3600000) \div 60000, (ms % 60000) \div 1000,
       FracTimes(ms, 100) >>

\* HH:MM:SS,mmm, as its four numbers
srt_time(ms) ==
    << ms \div 3600000, (ms % 3600000) \div 60000, (ms % 60000) \div 1000,
       FracTimes(ms, 1000) >>

\* the Dialogue events of _generate_ass: for each group, one event per word of
\* the group, with that word highlighted
generate_ass(words) ==
    LET groups == group_words(words, DefaultGroupSize)
        EventsOf(group) ==
            [a \in 1..Len(group) |->
                [start |-> format_ass_time(group[a].start),
                 end   |-> format_ass_time(group[a].end),
                 text  |-> JoinSpace([j \in 1..Len(group) |->
                              IF j = a
                              THEN "{\\c&H00FFFF&\\b1\\fs80}" \o group[j].word \o "{\\r}"
                              ELSE group[j].word])]]
        RECURSIVE EventsFrom(_)
        EventsFrom(n) ==
            IF n > Len(groups) THEN <<>>
            ELSE (IF groups[n] = <<>> THEN <<>> ELSE EventsOf(groups[n]))
                 \o EventsFrom(n + 1)
    IN  EventsFrom(1)

\* the entries of _generate_srt: one per group, numbered from 1
generate_srt(words) ==
    LET groups == group_words(words, DefaultGroupSize)
        RECURSIVE LinesFrom(_)
        LinesFrom(i) ==
            IF i > Len(groups) THEN <<>>
            ELSE (IF groups[i] = <<>> THEN <<>>
                  ELSE << [index |-> i,
                           start |-> srt_time(groups[i][1].start),
                           end   |-> srt_time(groups[i][Len(groups[i])].end),
                           text  |-> JoinSpace([j \in 1..Len(groups[i]) |->
                                                   groups[i][j].word])] >>)
                 \o LinesFrom(i + 1)
    IN  LinesFrom(1)

InitCaptions ==
    /\ OrchIdle
    /\ rt = EmptyDict
    /\ eng = EmptyDict
    /\ mus = EmptyDict
    /\ dft = EmptyDict
    /\ stg = EmptyDict
    /\ duo = EmptyDict
    /\ \E pool \in {SampleWords, EvenWords}, n \in 0..MaxWords, g \in 1..MaxGroupSize :
          cap = [words |-> SubSeq(pool, 1, n), group_size |-> g, ran |-> {},
                 groups |-> <<>>, srt |-> <<>>, ass |-> <<>>]

CaptionsFrame == UNCHANGED <<progVars, histVars, ledgerVars, rt, eng, mus, dft, stg, duo>>

GroupWords ==
    /\ cap # EmptyDict
    /\ "group" \notin cap.ran
    /\ cap' = [cap EXCEPT !.groups = group_words(cap.words, cap.group_size),
                          !.ran = @ \cup {"group"}]
    /\ CaptionsFrame

GenerateSrt ==
    /\ cap # EmptyDict
    /\ "srt" \notin cap.ran
    /\ cap' = [cap EXCEPT !.srt = generate_srt(cap.words), !.ran = @ \cup {"srt"}]
    /\ CaptionsFrame

GenerateAss ==
    /\ cap # EmptyDict
    /\ "ass" \notin cap.ran
    /\ cap' = [cap EXCEPT !.ass = generate_ass(cap.words), !.ran = @ \cup {"ass"}]
    /\ CaptionsFrame

NextCaptions ==
    \/ GroupWords
    \/ GenerateSrt
    \/ GenerateAss

SpecCaptions == InitCaptions /\ [][NextCaptions]_vars

\* ceil(n / g)
Ceil(n, g) == (n + g - 1) \div g

RECURSIVE Concat(_)
Concat(groups) ==
    IF groups = <<>> THEN <<>> ELSE Head(groups) \o Concat(Tail(groups))

AssMs(ts) == ts[1] * 3600000 + ts[2] * 60000 + ts[3] * 1000 + ts[4] * 10

\* the caption group of the i-th word, and the word's place in it
GroupOfWord(words, i) ==
    LET first == ((i - 1) \div DefaultGroupSize) * DefaultGroupSize + 1
        last  == IF first + DefaultGroupSize - 1 < Len(words)
                 THEN first + DefaultGroupSize - 1 ELSE Len(words)
    IN  [words |-> SubSeq(words, first, last), at |-> i - first + 1]

\* the words of a group, space-joined, the one at position at highlighted
Highlighted(group, at) ==
    JoinSpace([j \in 1..Len(group) |->
                  IF j = at THEN "{\\c&H00FFFF&\\b1\\fs80}" \o group[j].word \o "{\\r}"
                  ELSE group[j].word])

\* C21: in the highlighted rendering the i-th event corresponds to the i-th
\* word: it spans exactly that word's [start, end], and its text lists the
\* words of that word's caption group in order, with the highlight styling on
\* exactly the word at that word's position in the group.
C21_EventPerWord ==
    (cap # EmptyDict /\ "ass" \in cap.ran) =>
        /\ Len(cap.ass) = Len(cap.words)
        /\ \A i \in 1..Len(cap.words) :
              LET g == GroupOfWord(cap.words, i)
              IN  /\ AssMs(cap.ass[i].start) = cap.words[i].start
                  /\ AssMs(cap.ass[i].end) = cap.words[i].end
                  /\ cap.ass[i].text = Highlighted(g.words, g.at)

(***************************************************************************)
(* Background music (pipeline/music.py): the merge of word timestamps into *)
(* speech regions and the ducking filter built from a region list.  Times  *)
(* are in milliseconds, gains in hundredths; a region is <<start, end>>.   *)
(***************************************************************************)
\* the longest word sequence the region merge is given
MaxSpeechWords == 3

\* if w["start"] - region_end < 0.5
GapThreshold == 500

\* def build_duck_filter(speech_regions, buffer: float = 0.3)
DefaultBuffer == 300

\* the except branch of the duration fallback: (0.0, 60.0)
LastResortDuration == 60000

SameRegion_only_if_overlapping(start, region_end) == start - region_end < 0

\* w["start"] - region_end < 0.5
SameRegion(start, region_end) == start - region_end < GapThreshold

\* the loop of _get_speech_regions over words[1:]
RECURSIVE MergeFrom(_, _, _, _)
MergeFrom(rest, region_start, region_end, regions) ==
    IF rest = <<>> THEN Append(regions, <<region_start, region_end>>)
    ELSE LET w == Head(rest)
         IN  IF SameRegion(w.start, region_end)
             THEN MergeFrom(Tail(rest), region_start, w.end, regions)
             ELSE MergeFrom(Tail(rest), w.start, w.end,
                            Append(regions, <<region_start, region_end>>))

\* _get_speech_regions: the merge when Whisper gave words, else the whole
\* audio as one region, of 60 s when its duration cannot be read
get_speech_regions(words, duration) ==
    IF words # <<>>
    THEN MergeFrom(Tail(words), words[1].start, words[1].end, <<>>)
    ELSE IF duration.ok THEN << <<0, duration.value>> >>
    ELSE << <<0, LastResortDuration>> >>

\* f"{x:.2f}": the nearest hundredth of a second, in hundredths
Fmt2(ms) == (ms + 5) \div 10

PaddedStart_unclamped(start, buffer) == start - buffer

\* s = max(0, start - buffer)
PaddedStart(start, buffer) == IF start - buffer > 0 THEN start - buffer ELSE 0

\* e = end + buffer
PaddedEnd(end, buffer) == end + buffer

\* build_duck_filter: "volume=0.25", or
\* "volume='if(between(t,s,e)+..., 0.12, 0.25)':eval=frame"
build_duck_filter(speech_regions, buffer) ==
    IF speech_regions = <<>>
    THEN [kind |-> "volume", volume |-> 25]
    ELSE [kind |-> "if",
          conditions |-> [i \in 1..Len(speech_regions) |->
                             [lo |-> Fmt2(PaddedStart(speech_regions[i][1], buffer)),
                              hi |-> Fmt2(PaddedEnd(speech_regions[i][2], buffer))]],
          then |-> 12, else |-> 25, eval |-> "frame"]

\* ffmpeg's reading of the filter at time t: between(t, lo, hi) is 1 when
\* lo <= t <= hi, and if(x, a, b) is a when the sum x is not 0
FilterGain(filter, t) ==
    IF filter.kind = "volume" THEN filter.volume
    ELSE IF \E i \in 1..Len(filter.conditions) :
               /\ filter.conditions[i].lo * 10 <= t
               /\ t <= filter.conditions[i].hi * 10
         THEN filter.then
         ELSE filter.else

\* the words Whisper may give: starts never decrease
SpeechWordPool ==
    {Word("w", st, st + d) : st \in {0, 300, 700, 1500}, d \in {0, 200, 1000}}

SpeechWords ==
    UNION {{ws \in [1..n -> SpeechWordPool] :
               \A i \in 1..(n - 1) : ws[i].start <= ws[i + 1].start} : n \in 1..MaxSpeechWords}

\* what get_audio_duration gives when Whisper gave no words
Durations == {[ok |-> TRUE, value |-> 1234], [ok |-> TRUE, value |-> 58127],
              [ok |-> FALSE, value |-> 0]}

\* the region lists and buffers of TestBuildDuckFilter
DirectCalls ==
    {[regions |-> r, buffer |-> DefaultBuffer] :
        r \in {<<>>, << <<1000, 3000>> >>, << <<0, 2500>>, <<2800, 4300>> >>,
               << <<100, 1000>> >>, << <<5000, 10000>> >>}}
    \cup {[regions |-> << <<1000, 2000>> >>, buffer |-> 500]}

InitMusic ==
    /\ OrchIdle
    /\ rt = EmptyDict
    /\ eng = EmptyDict
    /\ cap = EmptyDict
    /\ dft = EmptyDict
    /\ stg = EmptyDict
    /\ duo = EmptyDict
    /\ \/ \E ws \in SpeechWords :
             mus = [from |-> "words", words |-> ws, duration |-> [ok |-> FALSE, value |-> 0],
                    buffer |-> DefaultBuffer, pc |-> "start", regions |-> <<>>,
                    filter |-> [kind |-> "none"]]
       \/ \E d \in Durations :
             mus = [from |-> "duration", words |-> <<>>, duration |-> d,
                    buffer |-> DefaultBuffer, pc |-> "start", regions |-> <<>>,
                    filter |-> [kind |-> "none"]]
       \/ \E c \in DirectCalls :
             mus = [from |-> "direct", words |-> <<>>, duration |-> [ok |-> FALSE, value |-> 0],
                    buffer |-> c.buffer, pc |-> "regions", regions |-> c.regions,
                    filter |-> [kind |-> "none"]]

MusicFrame == UNCHANGED <<progVars, histVars, ledgerVars, rt, eng, cap, dft, stg, duo>>

\* speech_regions = _get_speech_regions(voiceover_path)
GetSpeechRegions ==
    /\ mus # EmptyDict
    /\ mus.pc = "start"
    /\ mus' = [mus EXCEPT !.pc = "regions",
                          !.regions = get_speech_regions(mus.words, mus.duration)]
    /\ MusicFrame

\* duck_filter = build_duck_filter(speech_regions)
BuildDuckFilter ==
    /\ mus # EmptyDict
    /\ mus.pc = "regions"
    /\ mus' = [mus EXCEPT !.pc = "filter",
                          !.filter = build_duck_filter(mus.regions, mus.buffer)]
    /\ MusicFrame

NextMusic ==
    \/ GetSpeechRegions
    \/ BuildDuckFilter

SpecMusic == InitMusic /\ [][NextMusic]_vars

\* the times at which a filter built from these regions may change its gain,
\* and the milliseconds around them
Probes(regions, buffer) ==
    LET marks == UNION {{regions[i][1] - buffer, regions[i][2] + buffer,
                         Fmt2(regions[i][1] - buffer) * 10,
                         Fmt2(regions[i][2] + buffer) * 10} : i \in 1..Len(regions)}
    IN  {t \in {b + d : b \in marks \cup {0}, d \in -6..6} : t >= 0}

\* the interval of a region, padded by the buffer and not starting before 0
Padded(region, buffer) ==
    [lo |-> IF region[1] < buffer THEN 0 ELSE region[1] - buffer,
     hi |-> region[2] + buffer]

\* one interval term per region, none starting before 0, and the constant
\* volume=0.25 for no region at all
FilterShape ==
    /\ mus.regions = <<>> => mus.filter = [kind |-> "volume", volume |-> 25]
    /\ mus.regions # <<>> =>
          /\ mus.filter.kind = "if"
          /\ mus.filter.eval = "frame"
          /\ Len(mus.filter.conditions) = Len(mus.regions)
          /\ \A i \in 1..Len(mus.regions) : mus.filter.conditions[i].lo >= 0

\* C22 as stated: the filter selects gain 0.12 at time t exactly when t lies
\* in the padded interval [max(0, start-buffer), end+buffer] of some region,
\* and 0.25 otherwise; it has one interval term per region, none with a
\* negative lower bound, and is the constant volume=0.25 for no region.
C22_DuckedExactlyInPadded ==
    (mus # EmptyDict /\ mus.pc = "filter") =>
        /\ FilterShape
        /\ \A t \in Probes(mus.regions, mus.buffer) :
              FilterGain(mus.filter, t) =
                  IF \E i \in 1..Len(mus.regions) :
                        /\ Padded(mus.regions[i], mus.buffer).lo <= t
                        /\ t <= Padded(mus.regions[i], mus.buffer).hi
                  THEN 12 ELSE 25

\* C22 amended: the filter selects gain 0.12 at time t exactly when t lies in
\* the padded interval of some region with both bounds rounded to the nearest
\* hundredth of a second, and 0.25 otherwise; it has one interval term per
\* region, none with a negative lower bound, and is the constant volume=0.25
\* for no region.
C22_DuckedInRoundedPadded ==
    (mus # EmptyDict /\ mus.pc = "filter") =>
        /\ FilterShape
        /\ \A t \in Probes(mus.regions, mus.buffer) :
              FilterGain(mus.filter, t) =
                  IF \E i \in 1..Len(mus.regions) :
                        /\ ((Padded(mus.regions[i], mus.buffer).lo + 5) \div 10) * 10 <= t
                        /\ t <= ((Padded(mus.regions[i], mus.buffer).hi + 5) \div 10) * 10
                  THEN 12 ELSE 25

\* a filter was built from the two regions of a word sequence, the first
\* starting less than the buffer after 0
C22_Witness ==
    /\ mus # EmptyDict
    /\ mus.pc = "filter"
    /\ mus.from = "words"
    /\ Len(mus.regions) = 2
    /\ mus.regions[1][1] < mus.buffer

\* the words at which the merge starts a region: the first, and every word
\* that starts 0.5 s or more after the end of the word before it
Breaks(words) ==
    {1} \cup {j \in 2..Len(words) : words[j].start - words[j - 1].end >= GapThreshold}

\* C26: speech regions built from a non-empty word sequence with
\* non-decreasing starts and end >= start for every word are ordered and
\* non-overlapping.  Each region has start <= end and starts at least 0.5 s
\* after the end of the region before it; a word that starts less than 0.5 s
\* after the end of the current region belongs to that region, so a region
\* runs from the start of one break word to the end of the word before the
\* next break.
C26_RegionsOrderedDisjoint ==
    (/\ mus # EmptyDict
     /\ mus.from = "words"
     /\ mus.pc # "start"
     /\ \A i \in 1..Len(mus.words) : mus.words[i].end >= mus.words[i].start) =>
        LET r  == mus.regions
            ws == mus.words
            b  == Breaks(ws)
        IN  /\ Len(r) = Cardinality(b)
            /\ \A k \in 1..Len(r) : r[k][1] <= r[k][2]
            /\ \A k \in 1..(Len(r) - 1) : r[k + 1][1] - r[k][2] >= GapThreshold
            /\ \A k \in 1..Len(r) :
                  \E j \in b :
                      /\ Cardinality({x \in b : x <= j}) = k
                      /\ r[k][1] = ws[j].start
                      /\ LET later == {x \in b : x > j}
                             last  == IF later = {} THEN Len(ws)
                                      ELSE (CHOOSE x \in later : \A y \in later : x <= y) - 1
                         IN  r[k][2] = ws[last].end

\* three words gave two regions: the second word was merged into the first
\* region although it ends before the first word does
C26_Witness ==
    /\ mus # EmptyDict
    /\ mus.from = "words"
    /\ mus.pc # "start"
    /\ Len(mus.words) = 3
    /\ Len(mus.regions) = 2
    /\ mus.words[2].end < mus.words[1].end
    /\ mus.regions[1] = <<mus.words[1].start, mus.words[2].end>>

\* C30: speech regions cover all speech.  For a non-empty word sequence with
\* non-decreasing starts, every word's [start, end] lies within one of the
\* regions of the merge, and the filter built from them has gain 0.12 at the
\* start and at the end of every word.
C30_RegionsCoverWords ==
    (mus # EmptyDict /\ mus.from = "words") =>
        /\ mus.pc # "start" =>
              \A i \in 1..Len(mus.words) :
                  \E k \in 1..Len(mus.regions) :
                      /\ mus.regions[k][1] <= mus.words[i].start
                      /\ mus.words[i].end <= mus.regions[k][2]
        /\ mus.pc = "filter" =>
              \A i \in 1..Len(mus.words) :
                  /\ FilterGain(mus.filter, mus.words[i].start) = 12
                  /\ FilterGain(mus.filter, mus.words[i].end) = 12

(***************************************************************************)
(* The draft command (pipeline/__main__.py cmd_draft, pipeline/draft.py):  *)
(* research, one call of _call_claude under with_retry(2, 3.0), fence      *)
(* stripping, json.loads, and the save of the new job record.  A reply is  *)
(* a sequence of tokens: a code fence, the word json, a JSON object, prose. *)
(***************************************************************************)
\* @with_retry(max_retries=2, base_delay=3.0) on _call_claude
ClaudeMaxRetries == 2

ClaudeBaseDelay == 3

\* the three backquotes that open and close a fenced block
Fence == "<fence>"

\* the JSON object of a well-formed reply
ReplyDoc == [script |-> "A script.", youtube_title |-> "A title"]

\* what the text-generation collaborator may return
Replies ==
    { <<"{doc}">>,
      <<Fence, "json", "{doc}", Fence>>,
      <<Fence, "{doc}", Fence>>,
      <<Fence, "json", "{doc}", Fence, "prose">>,
      <<"prose">>,
      <<Fence, "json", "prose", Fence>>,
      <<"prose", Fence, "json", "{doc}", Fence>>,
      <<"{doc}", "prose">> }

\* raw.split(fence)[1]: what lies between the first fence and the next
RECURSIVE UpToFence(_)
UpToFence(tokens) ==
    IF tokens = <<>> \/ Head(tokens) = Fence THEN <<>>
    ELSE <<Head(tokens)>> \o UpToFence(Tail(tokens))

\* lines 68-72: a reply that starts with a fence is cut down to its first
\* fenced part, without a leading json
StripFence(raw) ==
    IF raw # <<>> /\ Head(raw) = Fence
    THEN LET inner == UpToFence(Tail(raw))
         IN  IF inner # <<>> /\ Head(inner) = "json" THEN Tail(inner) ELSE inner
    ELSE raw

\* json.loads accepts the text of one JSON value and nothing else
IsJson(text) == text = <<"{doc}">>

\* what an invocation of the collaborator does: it raises, or returns a reply
ClaudeOutcomes ==
    {[kind |-> "raise", text |-> <<>>]}
    \cup {[kind |-> "return", text |-> reply] : reply \in Replies}

Retried_whenever_malformed(outcome) ==
    outcome.kind = "raise" \/ ~IsJson(StripFence(outcome.text))

\* retry.py 20-22: the wrapper returns what func returns and goes on to the
\* next attempt only when func raised
Retried(outcome) == outcome.kind = "raise"

NewsItems == {"news A", "news B"}

InitDraft ==
    /\ OrchIdle
    /\ rt = EmptyDict
    /\ eng = EmptyDict
    /\ cap = EmptyDict
    /\ mus = EmptyDict
    /\ stg = EmptyDict
    /\ duo = EmptyDict
    /\ \E news \in NewsItems :
          dft = [pc |-> "research", news |-> news, research |-> "", attempt |-> 0,
                 events |-> <<>>, raw |-> <<>>, records |-> EmptyDict, now |-> 0,
                 raised |-> "none"]

DraftFrame == UNCHANGED <<progVars, histVars, ledgerVars, rt, eng, cap, mus, stg, duo>>

\* research = research_topic(news): the snippets, or the note that stands in
\* for them when the search failed or found nothing
DraftResearch ==
    /\ dft # EmptyDict
    /\ dft.pc = "research"
    /\ \E found \in {"snippets", "no live research available"} :
          dft' = [dft EXCEPT !.pc = "claude", !.research = found]
    /\ DraftFrame

\* one invocation of the collaborator inside the wrapper of _call_claude: it
\* raises or returns a reply
ClaudeCall ==
    /\ dft # EmptyDict
    /\ dft.pc = "claude"
    /\ InRange(dft.attempt, ClaudeMaxRetries)
    /\ \E outcome \in ClaudeOutcomes :
          LET called == Append(dft.events, [kind |-> "call", out |-> outcome.kind,
                                            text |-> outcome.text])
          IN  IF Retried(outcome)
              THEN dft' = [dft EXCEPT
                      !.attempt = @ + 1,
                      !.events = IF WillSleep(dft.attempt, ClaudeMaxRetries)
                                 THEN Append(called,
                                        [kind |-> "sleep",
                                         delay |-> Delay(ClaudeBaseDelay, dft.attempt)])
                                 ELSE called]
              ELSE dft' = [dft EXCEPT !.pc = "parse", !.raw = outcome.text,
                                       !.events = called]
    /\ DraftFrame

\* the wrapper ran out of attempts: generate_draft and cmd_draft raise
ClaudeExhausted ==
    /\ dft # EmptyDict
    /\ dft.pc = "claude"
    /\ ~InRange(dft.attempt, ClaudeMaxRetries)
    /\ dft' = [dft EXCEPT !.pc = "raised", !.raised = "collaborator"]
    /\ DraftFrame

\* the rest of generate_draft and of cmd_draft: fence stripping, json.loads,
\* then the new record with research and draft done, saved under its job id
DraftParseAndSave ==
    /\ dft # EmptyDict
    /\ dft.pc = "parse"
    /\ IF IsJson(StripFence(dft.raw))
       THEN LET doc   == Put(Put(Put(ReplyDoc, "news", dft.news),
                                 "research", dft.research), "job_id", "job")
                state == complete_stage(
                             complete_stage(PipelineState(doc), "research",
                                            EmptyDict, dft.now),
                             "draft", EmptyDict, dft.now + 1)
            IN  dft' = [dft EXCEPT !.pc = "saved", !.now = @ + 2,
                                   !.records = Put(@, "job", save(state))]
       ELSE dft' = [dft EXCEPT !.pc = "raised", !.raised = "JSONDecodeError"]
    /\ DraftFrame

NextDraft ==
    \/ DraftResearch
    \/ ClaudeCall
    \/ ClaudeExhausted
    \/ DraftParseAndSave

SpecDraft == InitDraft /\ [][NextDraft]_vars

\* the invocations of the collaborator so far
ClaudeCalls == {i \in 1..Len(dft.events) : dft.events[i].kind = "call"}

\* the invocations that returned text that is not JSON after fence stripping
MalformedReturns ==
    {i \in ClaudeCalls : /\ dft.events[i].out = "return"
                         /\ ~IsJson(StripFence(dft.events[i].text))}

\* C23 as stated: when the collaborator returns text that is not valid JSON
\* after fence stripping, the draft command raises, the collaborator has been
\* invoked exactly once for that draft, and no job record has been created.
C23_MalformedRaisesAfterOneCall ==
    (dft # EmptyDict /\ MalformedReturns # {}) =>
        /\ dft.pc \in {"parse", "raised"}
        /\ dft.pc = "raised" => dft.raised = "JSONDecodeError"
        /\ Cardinality(ClaudeCalls) = 1
        /\ dft.records = EmptyDict

\* C23 amended: when the collaborator returns text that is not valid JSON
\* after fence stripping, the draft command raises and the collaborator is
\* not invoked again, and no sleep follows: the malformed reply came from the
\* last invocation, which is the first unless earlier invocations raised and
\* were retried (at most max_retries + 1 = 3 invocations in all); no job
\* record has been created.
C23_MalformedRaisesWithoutRetry ==
    (dft # EmptyDict /\ MalformedReturns # {}) =>
        LET ev == dft.events
        IN  /\ dft.pc \in {"parse", "raised"}
            /\ dft.pc = "raised" => dft.raised = "JSONDecodeError"
            /\ MalformedReturns = {Len(ev)}
            /\ \A i \in ClaudeCalls : i < Len(ev) => ev[i].out = "raise"
            /\ Cardinality(ClaudeCalls) <= ClaudeMaxRetries + 1
            /\ dft.records = EmptyDict

\* the command raised on a fenced reply whose inside is not JSON, returned by
\* the first invocation
C23_Witness ==
    /\ dft # EmptyDict
    /\ dft.pc = "raised"
    /\ dft.raised = "JSONDecodeError"
    /\ dft.raw = <<Fence, "json", "prose", Fence>>
    /\ Len(dft.events) = 1

(***************************************************************************)
(* The broll and voiceover stages of cmd_produce with their collaborators  *)
(* opened up (pipeline/broll.py generate_broll, pipeline/voiceover.py      *)
(* generate_voiceover): the remote call under with_retry(3, 2.0), and the  *)
(* local alternative of each, the solid-colour frame and macOS say.  The   *)
(* local alternatives are installed and work.                              *)
(***************************************************************************)
\* @with_retry(max_retries=3, base_delay=2.0) on _generate_image_gemini
GeminiMaxRetries == 3

\* @with_retry(max_retries=3, base_delay=2.0) on _call_elevenlabs
TtsMaxRetries == 3

\* prompts[:3]
MaxFrames == 3

\* the longest list of prompts a draft holds
MaxPrompts == 4

DigitStr == <<"0", "1", "2", "3", "4", "5", "6">>

\* out_dir / f"broll_{i}.png", written by Gemini and by _fallback_frame alike
FramePath(l, i) == Path(WorkDir(l) \o "/broll_" \o DigitStr[i + 1] \o ".png")

\* out_dir / f"voiceover_{lang}.mp3"
RemoteAudio(l) == Path(WorkDir(l) \o "/voiceover_" \o l \o ".mp3")

\* _say_fallback: out_dir / "voiceover_say.mp3"
SayAudio(l) == Path(WorkDir(l) \o "/voiceover_say.mp3")

PromptList(n) == [i \in 1..n |-> "prompt"]

\* draft.get("broll_prompts", ["Cinematic landscape"] * 3)
PromptsOf(d) == Get(d, "broll_prompts", [i \in 1..3 |-> "Cinematic landscape"])

FirstPrompts_all(prompts) == prompts

\* enumerate(prompts[:3])
FirstPrompts(prompts) == Slice(prompts, MaxFrames)

\* what the remote side can raise, all of them subclasses of Exception
RemoteErrors == {"RuntimeError", "ConnectionError", "Timeout"}

Substituted_on_runtime_errors_only(exc) == exc = "RuntimeError"

\* `except Exception` around the remote call in generate_broll and in
\* generate_voiceover: the local alternative stands in
Substituted(exc) == exc \in {"RuntimeError", "ConnectionError", "Timeout", "OSError"}

\* get_elevenlabs_key(): "" when neither the environment nor config.json has it
TtsKeys == {"", "key"}

\* the drafts produce is run on: with no prompts key, or with 0..MaxPrompts
StageDrafts ==
    {cmd_draft} \cup {Put(cmd_draft, "broll_prompts", PromptList(n)) : n \in 0..MaxPrompts}

InitFallback ==
    /\ OrchIdle
    /\ rt = EmptyDict
    /\ eng = EmptyDict
    /\ cap = EmptyDict
    /\ mus = EmptyDict
    /\ dft = EmptyDict
    /\ duo = EmptyDict
    /\ \E d \in StageDrafts, l \in Langs, key \in TtsKeys :
          stg = [pc |-> "broll", lang |-> l, tts_key |-> key, state |-> d,
                 prompts |-> FirstPrompts(PromptsOf(d)), attempt |-> 0,
                 frames |-> <<>>, origin |-> <<>>, gemini_calls |-> <<>>,
                 tts_calls |-> 0, audio |-> Path(""), voice |-> "none", now |-> 2]

FallbackFrame == UNCHANGED <<progVars, histVars, ledgerVars, rt, eng, cap, mus, dft, duo>>

\* the frame the loop is at, counted from 0
FrameIndex == Len(stg.frames)

\* this frame's invocations of the remote image collaborator, one more
CountedGemini ==
    IF stg.attempt = 0 THEN Append(stg.gemini_calls, 1)
    ELSE [stg.gemini_calls EXCEPT ![Len(stg.gemini_calls)] = @ + 1]

\* the frame is appended, from the remote image or from _fallback_frame
FrameAppended(counts, from) ==
    stg' = [stg EXCEPT !.frames = Append(@, FramePath(stg.lang, FrameIndex)),
                       !.origin = Append(@, from),
                       !.gemini_calls = counts,
                       !.attempt = 0]

\* one attempt of _generate_image_gemini for the current prompt: an image that
\* PIL can open, bytes that it cannot, or an exception, retried or, after the
\* last attempt, raised to generate_broll
GeminiCall ==
    /\ stg # EmptyDict
    /\ stg.pc = "broll"
    /\ FrameIndex < Len(stg.prompts)
    /\ InRange(stg.attempt, GeminiMaxRetries)
    /\ \/ FrameAppended(CountedGemini, "remote")
       \/ \E exc \in {"OSError"} :
             IF Substituted(exc)
             THEN FrameAppended(CountedGemini, "local")
             ELSE stg' = [stg EXCEPT !.pc = "raised", !.gemini_calls = CountedGemini]
       \/ \E exc \in RemoteErrors :
             IF InRange(stg.attempt + 1, GeminiMaxRetries)
             THEN stg' = [stg EXCEPT !.attempt = @ + 1, !.gemini_calls = CountedGemini]
             ELSE IF Substituted(exc)
                  THEN FrameAppended(CountedGemini, "local")
                  ELSE stg' = [stg EXCEPT !.pc = "raised", !.gemini_calls = CountedGemini]
    /\ FallbackFrame

\* generate_broll returns; state.complete_stage("broll", {"frames": [...]})
BrollStageDone ==
    /\ stg # EmptyDict
    /\ stg.pc = "broll"
    /\ FrameIndex = Len(stg.prompts)
    /\ stg' = [stg EXCEPT
            !.pc = "voiceover",
            !.state = complete_stage(@, "broll", [frames |-> StrList(stg.frames)], stg.now),
            !.now = @ + 1]
    /\ FallbackFrame

\* generate_voiceover returned vo_path; state.complete_stage("voiceover", ...)
VoiceoverDone(vo_path, count, from) ==
    stg' = [stg EXCEPT
        !.pc = "done",
        !.audio = vo_path,
        !.voice = from,
        !.tts_calls = count,
        !.state = complete_stage(@, "voiceover", [path |-> StrOfPath(vo_path)], stg.now),
        !.now = @ + 1]

\* `if not api_key: return _say_fallback(script, out_dir)`
VoiceoverWithoutKey ==
    /\ stg # EmptyDict
    /\ stg.pc = "voiceover"
    /\ stg.tts_key = ""
    /\ VoiceoverDone(SayAudio(stg.lang), stg.tts_calls, "local")
    /\ FallbackFrame

\* one attempt of _call_elevenlabs: the audio bytes, or an exception, retried
\* or, after the last attempt, raised to generate_voiceover
ElevenLabsCall ==
    /\ stg # EmptyDict
    /\ stg.pc = "voiceover"
    /\ stg.tts_key # ""
    /\ InRange(stg.attempt, TtsMaxRetries)
    /\ \/ VoiceoverDone(RemoteAudio(stg.lang), stg.tts_calls + 1, "remote")
       \/ \E exc \in RemoteErrors :
             IF InRange(stg.attempt + 1, TtsMaxRetries)
             THEN stg' = [stg EXCEPT !.attempt = @ + 1, !.tts_calls = @ + 1]
             ELSE IF Substituted(exc)
                  THEN VoiceoverDone(SayAudio(stg.lang), stg.tts_calls + 1, "local")
                  ELSE stg' = [stg EXCEPT !.pc = "raised", !.tts_calls = @ + 1]
    /\ FallbackFrame

NextFallback ==
    \/ GeminiCall
    \/ BrollStageDone
    \/ VoiceoverWithoutKey
    \/ ElevenLabsCall

SpecFallback == InitFallback /\ [][NextFallback]_vars

Min(a, b) == IF a < b THEN a ELSE b

C24_WitnessNoKey ==
    /\ stg # EmptyDict
    /\ stg.pc = "done"
    /\ stg.tts_key = ""
    /\ stg.tts_calls = 0
    /\ stg.audio = SayAudio(stg.lang)

(***************************************************************************)
(* Two orchestrator processes on one job record (pipeline/__main__.py      *)
(* cmd_produce and cmd_upload, pipeline/state.py save).  Each reads the    *)
(* file once, keeps its own draft in memory, and writes the whole draft    *)
(* back at the end of its command.  The file is the only thing they share. *)
(***************************************************************************)
Instances == {"A", "B"}

Other(i) == IF i = "A" THEN "B" ELSE "A"

Persist_merging_ledgers(old, d) ==
    LET was    == StateOf(PipelineState(json_loads(old)))
        merged == [s \in DOMAIN was \cup DOMAIN StateOf(d) |->
                      IF s \in DOMAIN StateOf(d) THEN StateOf(d)[s] ELSE was[s]]
    IN  save(Put(d, "_pipeline_state", merged))

\* path.write_text(json.dumps(self.draft, ...)): what the file held is gone
Persist(old, d) == save(d)

\* what a collaborator of this process hands to complete_stage
DuoArtifacts(i, stage) == [path |-> WorkDir(duo.inst[i].lang) \o "/" \o stage]

\* the key the command records its result under before it saves
ResultKey(command, l) == IF command = "produce" THEN VideoKey(l) ELSE UrlKey(l)

NotStarted ==
    [pc |-> "idle", cmd |-> "none", lang |-> "en", force |-> FALSE,
     draft |-> NoDraft, todo |-> <<>>, own |-> {}]

InitDuo ==
    /\ OrchIdle
    /\ rt = EmptyDict
    /\ eng = EmptyDict
    /\ cap = EmptyDict
    /\ mus = EmptyDict
    /\ dft = EmptyDict
    /\ stg = EmptyDict
    /\ duo = [disk |-> save(cmd_draft), last |-> "none", clock |-> 2,
              inst |-> [i \in Instances |-> NotStarted]]

DuoFrame == UNCHANGED <<progVars, histVars, ledgerVars, rt, eng, cap, mus, dft, stg>>

\* draft = json.loads(draft_path.read_text()); state = PipelineState(draft)
DuoLoad ==
    /\ duo # EmptyDict
    /\ \E i \in Instances, command \in {"produce", "upload"}, l \in Langs, f \in BOOLEAN :
          /\ duo.inst[i].pc = "idle"
          /\ duo' = [duo EXCEPT !.inst[i] =
                        [pc |-> "running", cmd |-> command, lang |-> l, force |-> f,
                         draft |-> PipelineState(json_loads(duo.disk)),
                         todo |-> IF command = "produce" THEN ProduceStages ELSE UploadStages,
                         own |-> {}]]
    /\ DuoFrame

\* one stage of the command: run and completed in memory, skipped, or raising,
\* which ends the command before its save unless it is the thumbnail
DuoStage ==
    /\ duo # EmptyDict
    /\ \E i \in Instances :
          LET me    == duo.inst[i]
              stage == Head(me.todo)
          IN  /\ me.pc = "running"
              /\ me.todo # <<>>
              /\ IF me.force \/ ~is_done(me.draft, stage)
                 THEN \/ duo' = [duo EXCEPT
                            !.clock = @ + 1,
                            !.inst[i].draft = complete_stage(@, stage,
                                                  DuoArtifacts(i, stage), duo.clock),
                            !.inst[i].own = @ \cup {stage},
                            !.inst[i].todo = Tail(@)]
                      \/ IF Propagates(stage)
                         THEN duo' = [duo EXCEPT !.inst[i].pc = "raised"]
                         ELSE duo' = [duo EXCEPT !.inst[i].todo = Tail(@)]
                 ELSE duo' = [duo EXCEPT !.inst[i].todo = Tail(@)]
    /\ DuoFrame

\* draft[f"video_{lang}"] = ...; state.save(draft_path)
DuoSave ==
    /\ duo # EmptyDict
    /\ \E i \in Instances :
          LET me    == duo.inst[i]
              final == Put(me.draft, ResultKey(me.cmd, me.lang), "result of " \o i)
          IN  /\ me.pc = "running"
              /\ me.todo = <<>>
              /\ duo' = [duo EXCEPT !.disk = Persist(duo.disk, final),
                                    !.last = i,
                                    !.inst[i].draft = final,
                                    !.inst[i].pc = "saved"]
    /\ DuoFrame

NextDuo ==
    \/ DuoLoad
    \/ DuoStage
    \/ DuoSave

SpecDuo == InitDuo /\ [][NextDuo]_vars

\* the completions of stage s that process i recorded and the last writer's
\* memory does not hold
LostTo(i, w) ==
    {s \in duo.inst[i].own :
        \/ s \notin DOMAIN StateOf(duo.inst[w].draft)
        \/ StateOf(duo.inst[w].draft)[s] # StateOf(duo.inst[i].draft)[s]}

\* C25: with two orchestrator processes on the same job record, the persisted
\* document is the whole in-memory document of the process that saved last,
\* ledger included; a stage completion that only the other process recorded
\* is not in the persisted ledger.
C25_LastWriterWins ==
    (duo # EmptyDict /\ duo.last # "none") =>
        LET w      == duo.last
            o      == Other(w)
            stored == json_loads(duo.disk)
        IN  /\ stored = duo.inst[w].draft
            /\ StateOf(stored) = StateOf(duo.inst[w].draft)
            /\ \A s \in LostTo(o, w) :
                  \/ s \notin DOMAIN StateOf(stored)
                  \/ StateOf(stored)[s] # StateOf(duo.inst[o].draft)[s]

\* both processes read the record before either saved; A produced and saved,
\* then B, which had uploaded, saved: the five completions of A are gone
C25_Witness ==
    /\ duo # EmptyDict
    /\ duo.last = "B"
    /\ duo.inst["A"].pc = "saved"
    /\ duo.inst["A"].own = Range(ProduceStages)
    /\ duo.inst["B"].own = Range(UploadStages)
    /\ \A s \in Range(ProduceStages) : s \notin DOMAIN StateOf(json_loads(duo.disk))
    /\ is_done(duo.inst["A"].draft, "assemble")

(***************************************************************************)
(* One command run on a job record whose ledger reports any set of the     *)
(* produce stages done: the record may come from an earlier version, from  *)
(* another tool or from an edit by hand.                                   *)
(***************************************************************************)
\* what the ledger of such a record holds for a done stage
PresetArtifacts(stage) ==
    CASE stage = "broll"     -> [frames |-> <<"old/broll_0.png">>]
      [] stage = "voiceover" -> [path |-> "old/voiceover_en.mp3"]
      [] stage = "captions"  -> [srt_path |-> "old/captions_en.srt",
                                 ass_path |-> "old/captions_en.ass"]
      [] stage = "music"     -> [track_path |-> "music/a.mp3", duck_filter |-> "volume=0.25"]
      [] stage = "assemble"  -> [video_path |-> "old/pipeline_en.mp4"]

\* the draft with the stages of `done` completed, in pipeline order
RECURSIVE CompleteAll(_, _, _)
CompleteAll(d, stages, done) ==
    IF stages = <<>> THEN d
    ELSE CompleteAll(IF Head(stages) \in done
                     THEN complete_stage(d, Head(stages), PresetArtifacts(Head(stages)), 1)
                     ELSE d,
                     Tail(stages), done)

AnyLedger == {CompleteAll(cmd_draft, ProduceStages, done) : done \in SUBSET Range(ProduceStages)}

\* the record on disk has any ledger, and one command is run on it
InitFromAnyLedger ==
    /\ \E d \in AnyLedger : disk = save(d)
    /\ draft = NoDraft
    /\ pc = "idle"
    /\ incall = FALSE
    /\ cmd = "none"
    /\ lang = "en"
    /\ force = FALSE
    /\ loc = EmptyDict
    /\ clock = 2
    /\ runs = MaxRuns - 1
    /\ loaded = NoDraft
    /\ ref = NoDraft
    /\ calls = <<>>
    /\ refCalls = <<>>
    /\ decided = {}
    /\ returned = {}
    /\ raisedIn = {}
    /\ stopped = NotStopped
    /\ prev = NoRun
    /\ LedgerIdle
    /\ CompIdle

SpecFromAnyLedger == InitFromAnyLedger /\ [][Next]_vars

\* the place of a stage in the produce order
StagePos(stage) == CHOOSE k \in 1..Len(ProduceStages) : ProduceStages[k] = stage

\* C27: in a produce run, with or without force and from any loaded ledger,
\* the collaborators that run are invoked in the order broll, voiceover,
\* captions, music, assemble, each at most once; while the assemble
\* collaborator is being invoked the in-memory ledger reports broll,
\* voiceover, captions and music done, and more generally the run is at a
\* stage only when every earlier stage is done in memory.
C27_StageOrderRespected ==
    cmd = "produce" =>
        /\ \A i, j \in 1..Len(calls) :
              i < j => StagePos(calls[i].stage) < StagePos(calls[j].stage)
        /\ (pc = "assemble" /\ incall) =>
              /\ calls[Len(calls)].stage = "assemble"
              /\ \A stage \in {"broll", "voiceover", "captions", "music"} :
                    is_done(draft, stage)
        /\ pc \in Range(ProduceStages) =>
              \A k \in 1..(StagePos(pc) - 1) : is_done(draft, ProduceStages[k])

\* without force, on a ledger that reports only voiceover and music done, the
\* assemble collaborator is being invoked after broll and captions, and the
\* two others were skipped
C27_Witness ==
    /\ cmd = "produce" /\ ~force
    /\ pc = "assemble" /\ incall
    /\ StatusIn(loaded, "voiceover") = "done" /\ StatusIn(loaded, "music") = "done"
    /\ StatusIn(loaded, "broll") = "pending"
    /\ [i \in 1..Len(calls) |-> calls[i].stage] = <<"broll", "captions", "assemble">>

\* with force, on a ledger that reports all five done, all five are invoked
C27_WitnessForced ==
    /\ cmd = "produce" /\ force
    /\ pc = "assemble" /\ incall
    /\ \A stage \in Range(ProduceStages) : StatusIn(loaded, stage) = "done"
    /\ [i \in 1..Len(calls) |-> calls[i].stage] = ProduceStages

\* C28: the ledger is keyed by stage name only.  A produce without force for
\* a language other than the one of the produce that completed just before it
\* on the same record invokes no collaborator, and what it records and saves
\* under video_<its language> is the video path the ledger holds for
\* assemble, the one recorded under video_<the other language>.
C28_LedgerNotKeyedByLanguage ==
    ( /\ cmd = "produce" /\ ~force
      /\ prev.cmd = "produce" /\ prev.end = "done" /\ prev.lang # lang )
    => /\ calls = <<>>
       /\ pc \notin {"raised"}
       /\ pc = "done" =>
             /\ OnDisk[VideoKey(lang)] = Recorded(loaded, "assemble", "video_path")
             /\ OnDisk[VideoKey(lang)] = loaded[VideoKey(prev.lang)]
             /\ OnDisk[VideoKey(prev.lang)] = loaded[VideoKey(prev.lang)]

\* produce for hi after a completed produce for en: no call, and video_hi is
\* the English video
C28_Witness ==
    /\ cmd = "produce" /\ ~force /\ lang = "hi" /\ pc = "done"
    /\ prev.cmd = "produce" /\ prev.end = "done" /\ prev.lang = "en"
    /\ calls = <<>>
    /\ OnDisk["video_hi"] = "media/pipeline_en.mp4"
    /\ OnDisk["video_en"] = "media/pipeline_en.mp4"

\* the candidates of the sources that returned, merged in the order the
\* sources are configured and submitted in
RECURSIVE MergedInOrder(_)
MergedInOrder(srcs) ==
    IF srcs = <<>> THEN <<>>
    ELSE (IF Head(srcs) \in ReturnedNormally THEN eng.plan[Head(srcs)].topics ELSE <<>>)
         \o MergedInOrder(Tail(srcs))

\* C29: discovery is deterministic with respect to scheduling.  For fixed
\* outputs of every source, the list discover returns is the same whatever
\* the order in which the fetches complete: it is the list obtained when they
\* complete in the order the sources were submitted in.
C29_ResultIndependentOfCompletionOrder ==
    (eng # EmptyDict /\ eng.pc = "returned") =>
        eng.result = Slice(RankByScore(Dedupe(MergedInOrder(Sources))), eng.limit)

====
